---- MODULE Spec2Model ----
(***************************************************************************)
(* Model of the deepagents file server: the three FilesystemBackend        *)
(* implementations (fileserver/fastapi_server.py, fileserver/server.py,    *)
(* fileserver/server_fastapi.py) over a small POSIX filesystem with one    *)
(* symbolic link, and the sliding-window RateLimiter.                      *)
(*                                                                         *)
(* An absolute filesystem path is the sequence of its segment names, so    *)
(* <<>> is "/" and <<"a", "b">> is "/a/b".  A caller-supplied path string  *)
(* (a key) is the sequence of its tokens: the separator "/", the special   *)
(* names "." and "..", and ordinary names.  File content is a sequence of  *)
(* one-character strings.                                                  *)
(***************************************************************************)
EXTENDS Integers, Sequences, FiniteSets, TLC

VARIABLES
    variant,    \* which FilesystemBackend implementation serves this run
    fs,         \* the filesystem: absolute path -> node
    last,       \* the last backend call: the operation and what it returned
    tx,         \* the edit in progress, between its system calls
    limiter,    \* the RateLimiter object: max_requests, window_seconds, requests
    now,        \* the clock, time.time()
    admitted,   \* per client, the times of every admitted call so far
    verdict,    \* the last admission check: client, time, result
    server,     \* the HTTP server's configuration: enable_auth, enable_rate_limit
    workers     \* per worker, the admission check it is in the middle of

backendVars == <<variant, fs, last, tx>>
rateVars == <<limiter, now, admitted, verdict>>
serverVars == <<server, workers>>
vars == <<variant, fs, last, tx, limiter, now, admitted, verdict, server, workers>>

----------------------------------------------------------------------------
(* Bounds of the model *)

MaxSegs == 2        \* segments in a caller-supplied path
MaxNodes == 7       \* nodes the filesystem may hold
MaxTextLen == 3     \* characters in a text written and read back
MaxDocLen == 4      \* characters in a file that is edited
MaxArgLen == 2      \* characters in old_string and in new_string
MaxRequests == 1    \* the largest max_requests a RateLimiter is built with
MaxWindow == 1      \* the largest window_seconds a RateLimiter is built with
MaxTime == 2        \* the last reading of the clock
MaxAdmitted == 2    \* admitted calls of a client after which no worker starts a check for it

----------------------------------------------------------------------------
(* Optional values: None, or a one-element set *)

None == {}
Some(x) == {x}
The(s) == CHOOSE x \in s : TRUE

----------------------------------------------------------------------------
(* The filesystem *)

CWD == <<"a">>                      \* the backend's root directory, /a
OutsideFile == <<"b">>              \* a file beside the root, /b
LinkPath == <<"a", "b">>            \* a symbolic link inside the root, /a/b ...
LinkTarget == OutsideFile           \* ... that points out of it, to /b

DirNode == [kind |-> "dir"]
FileNode(c) == [kind |-> "file", content |-> c]
LinkNode(t) == [kind |-> "link", target |-> t]

Parent(p) == IF p = <<>> THEN <<>> ELSE SubSeq(p, 1, Len(p) - 1)

IsPrefix(p, q) == Len(p) <= Len(q) /\ SubSeq(q, 1, Len(p)) = p

UnderRoot(p) == IsPrefix(CWD, p)

Exists(f, p) == p \in DOMAIN f
IsDirAt(f, p) == Exists(f, p) /\ f[p].kind = "dir"
IsFileAt(f, p) == Exists(f, p) /\ f[p].kind = "file"
IsLinkAt(f, p) == Exists(f, p) /\ f[p].kind = "link"

\* The filesystem f with node n put at path p.
Put(f, p, n) == [q \in DOMAIN f \cup {p} |-> IF q = p THEN n ELSE f[q]]

----------------------------------------------------------------------------
(* Caller-supplied path strings *)

Sep == "/"
KeyNames == {"a", "b", ".."}

SegSeqs == UNION {[1..n -> KeyNames] : n \in 0..MaxSegs}

\* The string "s1/s2/.../sn" as a sequence of tokens.
RECURSIVE JoinSegs(_)
JoinSegs(segs) ==
    IF Len(segs) = 0 THEN <<>>
    ELSE IF Len(segs) = 1 THEN segs
    ELSE <<Head(segs), Sep>> \o JoinSegs(Tail(segs))

\* Every path string a caller may send: relative or with a leading "/".
DotKey == <<".">>                   \* the string "."

Keys ==
    {JoinSegs(s) : s \in SegSeqs} \cup {<<Sep>> \o JoinSegs(s) : s \in SegSeqs}
    \cup {DotKey}

\* str.startswith("/")
StartsWithSep(key) == Len(key) > 0 /\ key[1] = Sep

\* str.lstrip("/")
RECURSIVE LStripSep(_)
LStripSep(key) == IF StartsWithSep(key) THEN LStripSep(Tail(key)) ELSE key

\* '".." in key': the substring test, on tokens (no ordinary name of the
\* model contains two dots).
HasDotDot(key) == \E i \in 1..Len(key) : key[i] = ".."

\* pathlib's parsing of a string into parts: split on the separator, empty
\* and "." segments dropped, ".." kept.
RECURSIVE Parts(_)
Parts(key) ==
    IF key = <<>> THEN <<>>
    ELSE IF Head(key) \in {Sep, "."} THEN Parts(Tail(key))
    ELSE <<Head(key)>> \o Parts(Tail(key))

\* Path(key).is_absolute()
IsAbsolute(key) == StartsWithSep(key)

----------------------------------------------------------------------------
(* POSIX path resolution *)

\* os.path.realpath, not strict, as Path.resolve() calls it: walks the
\* segments from the directory path, follows each symbolic link met,
\* removes "." and "..", and keeps the segments that do not exist.
RECURSIVE RealPath(_, _, _)
RealPath(f, path, rest) ==
    IF rest = <<>> THEN path
    ELSE LET name == Head(rest)
             tl == Tail(rest)
             newpath == Append(path, name)
         IN  IF name = "." THEN RealPath(f, path, tl)
             ELSE IF name = ".." THEN RealPath(f, Parent(path), tl)
             ELSE IF IsLinkAt(f, newpath) THEN RealPath(f, <<>>, f[newpath].target \o tl)
             ELSE RealPath(f, newpath, tl)

\* Path.resolve() of an absolute path given by its parts.
Resolve(f, parts) == RealPath(f, <<>>, parts)

\* The kernel's walk of an absolute path for a system call: every segment
\* before the last must exist and be a directory (after following links).
\* Gives the canonical path of the entry named, with errno "ok" when the
\* walk reached it (the entry itself may be missing: see Lookup) .
RECURSIVE Walk(_, _, _)
Walk(f, cur, rest) ==
    IF rest = <<>> THEN [errno |-> "ok", path |-> cur]
    ELSE LET name == Head(rest)
             tl == Tail(rest)
             np == Append(cur, name)
         IN  IF name = "." THEN Walk(f, cur, tl)
             ELSE IF name = ".." THEN Walk(f, Parent(cur), tl)
             ELSE IF ~Exists(f, np) THEN
                      IF tl = <<>> THEN [errno |-> "ok", path |-> np]
                      ELSE [errno |-> "ENOENT", path |-> np]
             ELSE IF f[np].kind = "link" THEN Walk(f, <<>>, f[np].target \o tl)
             ELSE IF f[np].kind = "file" /\ tl # <<>> THEN [errno |-> "ENOTDIR", path |-> np]
             ELSE Walk(f, np, tl)

\* The canonical path a system call on path p acts on, or None when the
\* walk fails.
Lookup(f, p) == LET w == Walk(f, <<>>, p) IN IF w.errno = "ok" THEN Some(w.path) ELSE None

\* Path.exists(), Path.is_file(), Path.is_dir(): stat, following links.
PathExists(f, p) == \E q \in Lookup(f, p) : Exists(f, q)
PathIsFile(f, p) == \E q \in Lookup(f, p) : IsFileAt(f, q)
PathIsDir(f, p) == \E q \in Lookup(f, p) : IsDirAt(f, q)

\* os.mkdir(d): errno and the filesystem after the call.
OsMkdir(f, d) ==
    LET w == Walk(f, <<>>, d)
    IN  IF w.errno # "ok" THEN [errno |-> w.errno, fs |-> f]
        ELSE IF Exists(f, w.path) THEN [errno |-> "EEXIST", fs |-> f]
        ELSE [errno |-> "ok", fs |-> Put(f, w.path, DirNode)]

\* Path.mkdir(parents=True, exist_ok=True): creates the missing
\* directories from the top down; fails when an entry on the way is not a
\* directory.
RECURSIVE MkdirParents(_, _)
MkdirParents(f, d) ==
    LET r == OsMkdir(f, d)
    IN  IF r.errno = "ok" THEN [ok |-> TRUE, fs |-> r.fs]
        ELSE IF r.errno = "ENOENT" THEN
            IF d = <<>> THEN [ok |-> FALSE, fs |-> f]
            ELSE LET pr == MkdirParents(f, Parent(d))
                     r2 == OsMkdir(pr.fs, d)
                 IN  IF ~pr.ok THEN pr
                     ELSE IF r2.errno = "ok" THEN [ok |-> TRUE, fs |-> r2.fs]
                     ELSE [ok |-> r2.errno # "ENOENT" /\ PathIsDir(r2.fs, d), fs |-> r2.fs]
        ELSE [ok |-> PathIsDir(f, d), fs |-> f]

\* open(p, "w") followed by f.write(content) and close: creates the file
\* or truncates and rewrites it.
OpenWrite(f, p, content) ==
    LET w == Walk(f, <<>>, p)
    IN  IF w.errno # "ok" \/ IsDirAt(f, w.path)
        THEN [ok |-> FALSE, fs |-> f, at |-> None]
        ELSE [ok |-> TRUE, fs |-> Put(f, w.path, FileNode(content)), at |-> Some(w.path)]

\* open(p).read(): the content of the regular file at p.
ReadFile(f, p) == f[The(Lookup(f, p))].content

----------------------------------------------------------------------------
(* _resolve_path, one per implementation.  Some(path) or None, which     *)
(* stands for the ValueError "Path traversal detected".                  *)

FASTAPI_SERVER == "fastapi_server.py"
SERVER == "server.py"
SERVER_FASTAPI == "server_fastapi.py"
Variants == {FASTAPI_SERVER, SERVER, SERVER_FASTAPI}

\* _resolve_path with the link-following resolve() replaced by a lexical
\* normalisation (os.path.normpath): ".." is removed but no link is followed.
RECURSIVE NormPath(_, _)
NormPath(path, rest) ==
    IF rest = <<>> THEN path
    ELSE IF Head(rest) = "." THEN NormPath(path, Tail(rest))
    ELSE IF Head(rest) = ".." THEN NormPath(Parent(path), Tail(rest))
    ELSE NormPath(Append(path, Head(rest)), Tail(rest))

resolve_path_lexical(f, key) ==
    LET k == IF StartsWithSep(key) THEN LStripSep(key) ELSE key
        resolved == NormPath(<<>>, CWD \o Parts(k))
    IN  IF IsPrefix(CWD, resolved) THEN Some(resolved) ELSE None

resolve_path_fastapi_server(f, key) ==
    LET k == IF StartsWithSep(key) THEN LStripSep(key) ELSE key
        resolved == Resolve(f, CWD \o Parts(k))
    IN  IF IsPrefix(CWD, resolved) THEN Some(resolved) ELSE None

resolve_path_server(f, key) ==
    IF IsAbsolute(key) THEN Some(Parts(key))
    ELSE Some(Resolve(f, CWD \o Parts(key)))

resolve_path_server_fastapi(f, key) ==
    IF HasDotDot(key) THEN None
    ELSE LET resolved == IF IsAbsolute(key) THEN Parts(key)
                         ELSE Resolve(f, CWD \o Parts(key))
         IN  IF IsPrefix(CWD, resolved) THEN Some(resolved) ELSE None

resolve_path(v, f, key) ==
    CASE v = FASTAPI_SERVER -> resolve_path_fastapi_server(f, key)
      [] v = SERVER -> resolve_path_server(f, key)
      [] v = SERVER_FASTAPI -> resolve_path_server_fastapi(f, key)

----------------------------------------------------------------------------
(* Strings: sequences of one-character strings *)

NL == "\n"
Whitespace == {" ", NL}

\* sub occurs in s at index i (1-based)
OccursAt(s, sub, i) ==
    /\ i >= 1
    /\ i + Len(sub) - 1 <= Len(s)
    /\ SubSeq(s, i, i + Len(sub) - 1) = sub

\* str.find: the least index >= start where sub occurs in s, 0 when none.
RECURSIVE Find(_, _, _)
Find(s, sub, start) ==
    IF start + Len(sub) - 1 > Len(s) THEN 0
    ELSE IF OccursAt(s, sub, start) THEN start
    ELSE Find(s, sub, start + 1)

\* "sub in s"
Contains(s, sub) == Find(s, sub, 1) # 0

\* a count of every position where sub occurs, overlapping ones included
StrCount_overlapping(s, sub) ==
    Cardinality({i \in 1..(Len(s) + 1) : OccursAt(s, sub, i)})

\* str.count(sub): occurrences found scanning left to right, each search
\* resuming after the end of the previous occurrence.
RECURSIVE StrCount(_, _)
StrCount(s, sub) ==
    IF sub = <<>> THEN Len(s) + 1
    ELSE LET i == Find(s, sub, 1)
         IN  IF i = 0 THEN 0
             ELSE 1 + StrCount(SubSeq(s, i + Len(sub), Len(s)), sub)

\* a replace that ignores count
RECURSIVE StrReplace_every(_, _, _, _)
StrReplace_every(s, old, new, count) ==
    IF old = <<>> THEN
        IF s = <<>> THEN new
        ELSE new \o <<Head(s)>> \o StrReplace_every(Tail(s), old, new, count)
    ELSE LET i == Find(s, old, 1)
         IN  IF i = 0 THEN s
             ELSE SubSeq(s, 1, i - 1) \o new
                  \o StrReplace_every(SubSeq(s, i + Len(old), Len(s)), old, new, count)

\* str.replace(old, new, count): count < 0 replaces every occurrence.
RECURSIVE StrReplace(_, _, _, _)
StrReplace(s, old, new, count) ==
    IF count = 0 THEN s
    ELSE IF old = <<>> THEN
        IF s = <<>> THEN new
        ELSE new \o <<Head(s)>> \o StrReplace(Tail(s), old, new, count - 1)
    ELSE LET i == Find(s, old, 1)
         IN  IF i = 0 THEN s
             ELSE SubSeq(s, 1, i - 1) \o new
                  \o StrReplace(SubSeq(s, i + Len(old), Len(s)), old, new, count - 1)

\* str.strip()
RECURSIVE LStrip(_)
LStrip(s) == IF s # <<>> /\ Head(s) \in Whitespace THEN LStrip(Tail(s)) ELSE s
RECURSIVE RStrip(_)
RStrip(s) ==
    IF s # <<>> /\ s[Len(s)] \in Whitespace THEN RStrip(SubSeq(s, 1, Len(s) - 1)) ELSE s
Strip(s) == RStrip(LStrip(s))

\* str.splitlines(): the lines of s, line ends removed, no empty last line
\* after a final line end.
RECURSIVE SplitLines(_)
SplitLines(s) ==
    IF s = <<>> THEN <<>>
    ELSE LET i == Find(s, <<NL>>, 1)
         IN  IF i = 0 THEN <<s>>
             ELSE <<SubSeq(s, 1, i - 1)>> \o SplitLines(SubSeq(s, i + 1, Len(s)))

\* "\n".join(lines)
RECURSIVE JoinLines(_)
JoinLines(lines) ==
    IF lines = <<>> THEN <<>>
    ELSE IF Len(lines) = 1 THEN lines[1]
    ELSE lines[1] \o <<NL>> \o JoinLines(Tail(lines))

Digit(d) == <<"0", "1", "2", "3", "4", "5", "6", "7", "8", "9">>[d + 1]

\* str(n) for n >= 0
RECURSIVE Decimal(_)
Decimal(n) == IF n < 10 THEN <<Digit(n)>> ELSE Decimal(n \div 10) \o <<Digit(n % 10)>>

\* f"{i:5d}": the decimal number, signed when negative, right-aligned in
\* at least 5 characters.
FormatWidth == 5
Format5d(i) ==
    LET d == IF i < 0 THEN <<"-">> \o Decimal(-i) ELSE Decimal(i)
        pad == IF Len(d) < FormatWidth THEN FormatWidth - Len(d) ELSE 0
    IN  [k \in 1..pad |-> " "] \o d

\* line numbers counted from 0
FormatLine_zero_based(i, line) == Format5d(i - 1) \o <<" ", "|", " ">> \o line

\* f"{i:5d} | {line}"
FormatLine(i, line) == Format5d(i) \o <<" ", "|", " ">> \o line

\* A slice that takes the element at stop as well
PySlice_inclusive(seq, start, stop) ==
    LET n == Len(seq)
        clamp(k) == IF k < 0 THEN (IF k + n < 0 THEN 0 ELSE k + n)
                    ELSE IF k > n THEN n ELSE k
        lo == clamp(start)
        hi == clamp(stop + 1)
    IN  IF lo >= hi THEN <<>> ELSE SubSeq(seq, lo + 1, hi)

\* Python's seq[start:stop], negative indices counted from the end.
PySlice(seq, start, stop) ==
    LET n == Len(seq)
        clamp(k) == IF k < 0 THEN (IF k + n < 0 THEN 0 ELSE k + n)
                    ELSE IF k > n THEN n ELSE k
        lo == clamp(start)
        hi == clamp(stop)
    IN  IF lo >= hi THEN <<>> ELSE SubSeq(seq, lo + 1, hi)

Min(a, b) == IF a <= b THEN a ELSE b

----------------------------------------------------------------------------
(* FilesystemBackend operations.  Each gives the record of the call:      *)
(*   resolved     the path _resolve_path returned, None when it raised    *)
(*   error        the kind of the error returned, "none" on success       *)
(*   path         the "path" field of the result (None or the file_path)  *)
(*   occurrences  the "occurrences" field of the result (None or a count) *)
(*   out          what read or ls_info returned                           *)
(*   touched      the canonical paths the call opened, created or listed  *)
(* and, for write and edit, the filesystem after the call.                *)

NoOut == [kind |-> "none"]

Call(op, resolved, error, path, occurrences, out, touched) ==
    [op |-> op, resolved |-> resolved, error |-> error, path |-> path,
     occurrences |-> occurrences, out |-> out, touched |-> touched]

DefaultOffset == 0
DefaultLimit == 2000

\* The body of read once the file is found: the text read() returns for
\* the content of the file.
read_text(content, offset, limit) ==
    IF Strip(content) = <<>> THEN [kind |-> "empty", text |-> <<>>]
    ELSE LET lines == SplitLines(content)
             start_idx == offset
             end_idx == Min(start_idx + limit, Len(lines))
             selected_lines == PySlice(lines, start_idx, end_idx)
             formatted_lines == [k \in 1..Len(selected_lines) |->
                                    FormatLine(start_idx + k, selected_lines[k])]
         IN  IF start_idx >= Len(lines)
             THEN [kind |-> "offset_error", text |-> <<>>]
             ELSE [kind |-> "text", text |-> JoinLines(formatted_lines)]

read(v, f, file_path, offset, limit) ==
    LET r == resolve_path(v, f, file_path)
        resolved_path == The(r)
    IN  IF r = None
        THEN Call("read", None, "traversal", None, None,
                  [kind |-> "traversal_error", text |-> <<>>], {})
        ELSE IF ~PathExists(f, resolved_path) \/ ~PathIsFile(f, resolved_path)
        THEN Call("read", r, "not_found", None, None,
                  [kind |-> "not_found", text |-> <<>>], {})
        ELSE Call("read", r, "none", None, None,
                  read_text(ReadFile(f, resolved_path), offset, limit),
                  Lookup(f, resolved_path))

\* write without the check that the target exists
write_overwriting(v, f, file_path, content) ==
    LET r == resolve_path(v, f, file_path)
        resolved_path == The(r)
        made == MkdirParents(f, Parent(resolved_path))
        opened == OpenWrite(made.fs, resolved_path, content)
    IN  IF r = None
        THEN [fs |-> f, call |-> Call("write", None, "traversal", None, None, NoOut, {})]
        ELSE IF ~made.ok \/ ~opened.ok
        THEN [fs |-> made.fs,
              call |-> Call("write", r, "io", None, None, NoOut,
                            DOMAIN made.fs \ DOMAIN f)]
        ELSE [fs |-> opened.fs,
              call |-> Call("write", r, "none", Some(file_path), None, NoOut,
                            (DOMAIN made.fs \ DOMAIN f) \cup opened.at)]

write(v, f, file_path, content) ==
    LET r == resolve_path(v, f, file_path)
        resolved_path == The(r)
        made == MkdirParents(f, Parent(resolved_path))
        opened == OpenWrite(made.fs, resolved_path, content)
    IN  IF r = None
        THEN [fs |-> f, call |-> Call("write", None, "traversal", None, None, NoOut, {})]
        ELSE IF PathExists(f, resolved_path)
        THEN [fs |-> f, call |-> Call("write", r, "exists", None, None, NoOut, {})]
        ELSE IF ~made.ok
        THEN [fs |-> made.fs,
              call |-> Call("write", r, "io", None, None, NoOut,
                            DOMAIN made.fs \ DOMAIN f)]
        ELSE IF ~opened.ok
        THEN [fs |-> made.fs,
              call |-> Call("write", r, "io", None, None, NoOut,
                            DOMAIN made.fs \ DOMAIN f)]
        ELSE [fs |-> opened.fs,
              call |-> Call("write", r, "none", Some(file_path), None, NoOut,
                            (DOMAIN made.fs \ DOMAIN f) \cup opened.at)]

\* edit without the check that old_string occurs in the content
edit_unchecked(v, f, file_path, old_string, new_string, replace_all) ==
    LET r == resolve_path(v, f, file_path)
        resolved_path == The(r)
        content == ReadFile(f, resolved_path)
        new_content == IF replace_all THEN StrReplace(content, old_string, new_string, -1)
                       ELSE StrReplace(content, old_string, new_string, 1)
        occurrences == IF replace_all THEN StrCount(content, old_string) ELSE 1
        opened == OpenWrite(f, resolved_path, new_content)
    IN  IF r = None
        THEN [fs |-> f, call |-> Call("edit", None, "traversal", None, None, NoOut, {})]
        ELSE IF ~PathExists(f, resolved_path) \/ ~PathIsFile(f, resolved_path)
        THEN [fs |-> f, call |-> Call("edit", r, "not_found", None, None, NoOut, {})]
        ELSE [fs |-> opened.fs,
              call |-> Call("edit", r, "none", Some(file_path), Some(occurrences), NoOut,
                            opened.at)]

edit(v, f, file_path, old_string, new_string, replace_all) ==
    LET r == resolve_path(v, f, file_path)
        resolved_path == The(r)
        content == ReadFile(f, resolved_path)
        new_content == IF replace_all THEN StrReplace(content, old_string, new_string, -1)
                       ELSE StrReplace(content, old_string, new_string, 1)
        occurrences == IF replace_all THEN StrCount(content, old_string) ELSE 1
        opened == OpenWrite(f, resolved_path, new_content)
    IN  IF r = None
        THEN [fs |-> f, call |-> Call("edit", None, "traversal", None, None, NoOut, {})]
        ELSE IF ~PathExists(f, resolved_path) \/ ~PathIsFile(f, resolved_path)
        THEN [fs |-> f, call |-> Call("edit", r, "not_found", None, None, NoOut, {})]
        ELSE IF ~Contains(content, old_string)
        THEN [fs |-> f,
              call |-> Call("edit", r, "string_not_found", None, None, NoOut,
                            Lookup(f, resolved_path))]
        ELSE [fs |-> opened.fs,
              call |-> Call("edit", r, "none", Some(file_path), Some(occurrences), NoOut,
                            opened.at)]

----------------------------------------------------------------------------
(* ls_info *)

\* The character codes of a token.
Codes(t) ==
    CASE t = "." -> <<46>>
      [] t = ".." -> <<46, 46>>
      [] t = "/" -> <<47>>
      [] t = "a" -> <<97>>
      [] t = "b" -> <<98>>
      [] t = "*" -> <<42>>
      [] t = ".t" -> <<46, 116>>
      [] t = ".u" -> <<46, 117>>
      [] t = "a.t" -> <<97, 46, 116>>
      [] t = "b.u" -> <<98, 46, 117>>
      [] t = "d.t" -> <<100, 46, 116>>

\* The character codes of a string of tokens.
RECURSIVE StrCodes(_)
StrCodes(str) == IF str = <<>> THEN <<>> ELSE Codes(Head(str)) \o StrCodes(Tail(str))

\* Python's order on strings (and on lists): lexicographic
RECURSIVE LexLess(_, _)
LexLess(x, y) ==
    IF y = <<>> THEN FALSE
    ELSE IF x = <<>> THEN TRUE
    ELSE IF Head(x) # Head(y) THEN Head(x) < Head(y)
    ELSE LexLess(Tail(x), Tail(y))

\* sorted(): the elements of the set S in ascending order of their sort key
RECURSIVE SortByKey(_)
SortByKey(S) ==
    IF S = {} THEN <<>>
    ELSE LET m == CHOOSE x \in S : \A y \in S \ {x} : ~LexLess(y.key, x.key)
         IN  <<m>> \o SortByKey(S \ {m})

\* str(path) of an absolute path
AbsStr(p) == IF p = <<>> THEN <<Sep>> ELSE <<Sep>> \o JoinSegs(p)

\* str(path.relative_to(cwd)) of a path under cwd
RelStr(p) == IF p = CWD THEN <<".">> ELSE JoinSegs(SubSeq(p, Len(CWD) + 1, Len(p)))

\* Directory.iterdir(): the names in the directory at canonical path d
ChildNames(f, d) == {q[Len(q)] : q \in {x \in DOMAIN f : x # <<>> /\ Parent(x) = d}}

\* The FileInfo of the child called name of the directory dir_path.
FileInfo(v, f, dir_path, name) ==
    LET child_path == Append(dir_path, name)
        is_dir == ~PathIsFile(f, child_path)
        shown == IF v = FASTAPI_SERVER /\ IsPrefix(CWD, child_path)
                 THEN RelStr(child_path) ELSE AbsStr(child_path)
        path == IF is_dir THEN shown \o <<Sep>> ELSE shown
    IN  [path |-> path, is_dir |-> is_dir,
         size |-> IF is_dir THEN 0 ELSE Len(ReadFile(f, child_path)),
         key |-> IF v = FASTAPI_SERVER THEN StrCodes(<<name>>) ELSE StrCodes(path)]

\* The directory ls_info lists: Some(path), or None when the resolver
\* raises ValueError.  fastapi_server.py takes "." for the root without
\* resolving it.
ls_dir_path(v, f, path) ==
    IF v = FASTAPI_SERVER /\ path = DotKey THEN Some(CWD)
    ELSE resolve_path(v, f, path)

\* ls_info that lets the resolver's ValueError through
ls_info_raising(v, f, path) ==
    Call("ls", None, IF ls_dir_path(v, f, path) = None THEN "traversal" ELSE "none",
         None, None, [kind |-> "files", files |-> <<>>], {})

ls_info(v, f, path) ==
    LET r == ls_dir_path(v, f, path)
        dir_path == The(r)
        d == The(Lookup(f, dir_path))
        results == SortByKey({FileInfo(v, f, dir_path, n) : n \in ChildNames(f, d)})
    IN  IF r = None
        THEN Call("ls", None, "none", None, None, [kind |-> "files", files |-> <<>>], {})
        ELSE IF ~PathExists(f, dir_path) \/ ~PathIsDir(f, dir_path)
        THEN Call("ls", r, "none", None, None, [kind |-> "files", files |-> <<>>], {})
        ELSE Call("ls", r, "none", None, None,
                  [kind |-> "files",
                   files |-> [k \in 1..Len(results) |->
                                [path |-> results[k].path, is_dir |-> results[k].is_dir,
                                 size |-> results[k].size]]],
                  {d})

----------------------------------------------------------------------------
(* grep_raw and glob_info *)

\* Regular expressions: a pattern is a string of characters; "[" opens a
\* character set that nothing closes, every other character of the model
\* stands for itself.
BadChar == "["

\* re.compile(pattern): Some(regex), or None for re.error
re_compile(pattern) ==
    IF \E i \in 1..Len(pattern) : pattern[i] = BadChar THEN None ELSE Some(pattern)

\* regex.search(line)
re_search(regex, line) == Contains(line, regex)

\* A matcher that takes every name
glob_match_any(name, pattern) == TRUE

\* The characters n match the pattern pat.
RECURSIVE MatchCodes(_, _)
MatchCodes(n, pat) ==
    IF pat = <<>> THEN n = <<>>
    ELSE IF Head(pat) = "*"
    THEN \E k \in 0..Len(n) : MatchCodes(SubSeq(n, k + 1, Len(n)), Tail(pat))
    ELSE LET c == Codes(Head(pat))
         IN  /\ Len(c) <= Len(n)
             /\ SubSeq(n, 1, Len(c)) = c
             /\ MatchCodes(SubSeq(n, Len(c) + 1, Len(n)), Tail(pat))

\* fnmatch.fnmatch(name, pattern), and the match of one path segment by
\* Path.rglob(pattern).  A pattern is a string of tokens: "*" matches any
\* run of characters, every other token stands for its own characters.
glob_match(name, pattern) == MatchCodes(Codes(name), pattern)

\* Path.rglob: the paths below the directory root that the walk yields,
\* each as root joined with the names walked.  A symbolic link is yielded
\* and not entered.
RGlob(f, root) ==
    LET d == The(Lookup(f, root))
    IN  {root \o SubSeq(q, Len(d) + 1, Len(q)) :
            q \in {x \in DOMAIN f : IsPrefix(d, x) /\ x # d}}

\* str(path) of the path the variant reports for fp: relative to cwd in
\* fastapi_server.py, the absolute path in the other two.
ShownPath(v, fp) == IF v = FASTAPI_SERVER THEN RelStr(fp) ELSE AbsStr(fp)

\* The file fp passes the loop's filters and is read.
GrepReads(v, f, fp, glob) ==
    /\ PathIsFile(f, fp)
    /\ v = FASTAPI_SERVER => IsPrefix(CWD, fp)
    /\ \A g \in glob : g = <<>> \/ glob_match(fp[Len(fp)], g)

\* The matches of regex in the file fp
GrepFile(v, f, fp, regex) ==
    LET lines == SplitLines(ReadFile(f, fp))
    IN  {[path |-> ShownPath(v, fp), line |-> n, text |-> lines[n]] :
            n \in {k \in 1..Len(lines) : re_search(regex, lines[k])}}

\* grep_raw that resolves the base path before it compiles the pattern
grep_raw_resolving_first(v, f, pattern, path, glob) ==
    LET key == IF path = None \/ path = Some(<<>>) THEN DotKey ELSE The(path)
        r == resolve_path(v, f, key)
    IN  IF r = None
        THEN Call("grep", None, "none", None, None, [kind |-> "matches", matches |-> {}], {})
        ELSE IF re_compile(pattern) = None
        THEN Call("grep", r, "regex", None, None, [kind |-> "regex_error"], {})
        ELSE Call("grep", r, "none", None, None, [kind |-> "matches", matches |-> {}], {})

\* grep_raw(pattern, path, glob), path and glob optional.  The matches are
\* kept as a set: their order is the order of the directory walk.
grep_raw(v, f, pattern, path, glob) ==
    LET compiled == re_compile(pattern)
        key == IF path = None \/ path = Some(<<>>) THEN DotKey ELSE The(path)
        r == resolve_path(v, f, key)
        base_full == The(r)
        root == IF PathIsDir(f, base_full) THEN base_full ELSE Parent(base_full)
        read_files == {fp \in RGlob(f, root) : GrepReads(v, f, fp, glob)}
        empty == [kind |-> "matches", matches |-> {}]
    IN  IF compiled = None
        THEN Call("grep", None, "regex", None, None, [kind |-> "regex_error"], {})
        ELSE IF r = None
        THEN Call("grep", None, "none", None, None, empty, {})
        ELSE IF ~PathExists(f, base_full)
        THEN Call("grep", r, "none", None, None, empty, {})
        ELSE Call("grep", r, "none", None, None,
                  [kind |-> "matches",
                   matches |-> UNION {GrepFile(v, f, fp, The(compiled)) : fp \in read_files}],
                  UNION {Lookup(f, fp) : fp \in read_files})

\* The paths search_path.rglob(pattern) yields; None for the ValueError
\* that an empty pattern raises.
RGlobPattern(f, search_path, pattern) ==
    IF pattern = <<>> THEN None
    ELSE Some({fp \in RGlob(f, search_path) : glob_match(fp[Len(fp)], pattern)})

\* glob_info(pattern, path)
\* The directory glob_info searches: Some(path), or None when the resolver
\* raises ValueError.  server.py and server_fastapi.py take "/" for the
\* root without resolving it.
glob_search_path(v, f, path) ==
    IF v # FASTAPI_SERVER /\ path = <<Sep>> THEN Some(CWD)
    ELSE resolve_path(v, f, path)

glob_info(v, f, pattern, path) ==
    LET pat == IF StartsWithSep(pattern) THEN LStripSep(pattern) ELSE pattern
        r == glob_search_path(v, f, path)
        search_path == The(r)
        yielded == RGlobPattern(f, search_path, pat)
        found == {fp \in The(yielded) :
                    /\ v = FASTAPI_SERVER => IsPrefix(CWD, fp)
                    /\ PathIsFile(f, fp)}
        results == SortByKey({[path |-> ShownPath(v, fp), is_dir |-> FALSE,
                               size |-> Len(ReadFile(f, fp)),
                               key |-> StrCodes(ShownPath(v, fp))] : fp \in found})
        nothing == [kind |-> "files", files |-> <<>>]
    IN  IF r = None
        THEN Call("glob", None, "none", None, None, nothing, {})
        ELSE IF ~PathExists(f, search_path) \/ ~PathIsDir(f, search_path)
        THEN Call("glob", r, "none", None, None, nothing, {})
        ELSE IF yielded = None
        THEN Call("glob", r, "none", None, None, nothing, {})
        ELSE Call("glob", r, "none", None, None,
                  [kind |-> "files",
                   files |-> [k \in 1..Len(results) |->
                                [path |-> results[k].path, is_dir |-> FALSE,
                                 size |-> results[k].size]]],
                  UNION {Lookup(f, fp) : fp \in found})

----------------------------------------------------------------------------
(* The file server over a filesystem *)

FsContents == {<<"x">>, <<"y">>}    \* contents written and strings edited

InitFs ==
    (<<>> :> DirNode) @@ (OutsideFile :> FileNode(<<"x">>)) @@ (CWD :> DirNode)
    @@ (LinkPath :> LinkNode(LinkTarget))

\* What the model keeps of a call: the operation, the kind of error it
\* returned and whether it touched anything outside the root.
Summary(call) ==
    [op |-> call.op, error |-> call.error,
     outside |-> \E p \in call.touched : ~UnderRoot(p)]

NoCall == [op |-> "none", error |-> "none", outside |-> FALSE]

NoTx == [pc |-> "idle"]
NoLimiter == [max_requests |-> 0, window_seconds |-> 0, requests |-> <<>>]
NoVerdict == [client |-> "none", at |-> 0, allowed |-> FALSE, readmitted |-> FALSE]
NoServer == [enable_auth |-> FALSE, enable_rate_limit |-> FALSE]
Workers == {"w1", "w2"}
IdleWorker == [pc |-> "idle", client |-> "none", t |-> 0, missing |-> FALSE, kept |-> <<>>]
NoWorkers == [w \in Workers |-> IdleWorker]

\* The rate limiter is not part of the run
RateIdle ==
    /\ limiter = NoLimiter
    /\ now = 0
    /\ admitted = <<>>
    /\ verdict = NoVerdict
    /\ server = NoServer
    /\ workers = NoWorkers

InitBackend(v) ==
    /\ variant = v
    /\ fs = InitFs
    /\ last = NoCall
    /\ tx = NoTx
    /\ RateIdle

Init == \E v \in Variants : InitBackend(v)

\* The base path r of a listing or a search is rejected by the resolver,
\* does not exist or is not a directory.
InvalidBase(f, r) == r = None \/ ~PathExists(f, The(r)) \/ ~PathIsDir(f, The(r))

Ls ==
    \E path \in Keys :
        /\ last' = Summary(ls_info(variant, fs, path))
                   @@ [invalid |-> InvalidBase(fs, ls_dir_path(variant, fs, path))]
        /\ UNCHANGED <<variant, fs, tx>>
        /\ UNCHANGED <<rateVars, serverVars>>

Read ==
    \E file_path \in Keys :
        /\ last' = Summary(read(variant, fs, file_path, DefaultOffset, DefaultLimit))
        /\ UNCHANGED <<variant, fs, tx>>
        /\ UNCHANGED <<rateVars, serverVars>>

Write ==
    \E file_path \in Keys, content \in FsContents :
        LET w == write(variant, fs, file_path, content)
        IN  /\ Cardinality(DOMAIN w.fs) <= MaxNodes
            /\ fs' = w.fs
            /\ last' = Summary(w.call)
            /\ UNCHANGED <<variant, tx>>
            /\ UNCHANGED <<rateVars, serverVars>>

\* An edit that changes the text it finds, with replace_all left at its
\* default (SpecEdit runs edit with either value of replace_all).
Edit ==
    \E file_path \in Keys, old_string \in FsContents :
      \E new_string \in FsContents \ {old_string} :
        LET replace_all == FALSE
            e == edit(variant, fs, file_path, old_string, new_string, replace_all)
        IN  /\ fs' = e.fs
            /\ last' = Summary(e.call)
            /\ UNCHANGED <<variant, tx>>
            /\ UNCHANGED <<rateVars, serverVars>>

Next == Ls \/ Read \/ Write \/ Edit

\* Every implementation
Spec == Init /\ [][Next]_vars

\* Every implementation, with the operations that change the filesystem
NextMutate == Write \/ Edit
SpecMutate == Init /\ [][NextMutate]_vars

\* One implementation
SpecFastapiServer == InitBackend(FASTAPI_SERVER) /\ [][Next]_vars
SpecServer == InitBackend(SERVER) /\ [][Next]_vars
SpecServerFastapi == InitBackend(SERVER_FASTAPI) /\ [][Next]_vars

----------------------------------------------------------------------------
(* The sandbox *)

\* p is in canonical form in f: no "." or ".." segment, no symbolic link
\* on the way.
Canonical(f, p) ==
    /\ \A i \in 1..Len(p) : p[i] \notin {".", ".."}
    /\ \A i \in 1..Len(p) : ~IsLinkAt(f, SubSeq(p, 1, i))

\* Nothing outside the root differs between the filesystems f and g.
SameOutside(f, g) ==
    \A p \in DOMAIN f \cup DOMAIN g :
        ~UnderRoot(p) => p \in DOMAIN f /\ p \in DOMAIN g /\ f[p] = g[p]

\* The call touched nothing outside the root and left everything outside
\* the root as it was.
Confined(f, call, g) ==
    /\ \A p \in call.touched : UnderRoot(p)
    /\ SameOutside(f, g)

\* Every call a client can make in the current state is confined.
AllCallsConfined ==
    /\ \A key \in Keys :
          /\ Confined(fs, ls_info(variant, fs, key), fs)
          /\ Confined(fs, read(variant, fs, key, DefaultOffset, DefaultLimit), fs)
    /\ \A key \in Keys, c \in FsContents :
          Confined(fs, write(variant, fs, key, c).call, write(variant, fs, key, c).fs)
    /\ \A key \in Keys, old \in FsContents, new \in FsContents, all \in BOOLEAN :
          Confined(fs, edit(variant, fs, key, old, new, all).call,
                   edit(variant, fs, key, old, new, all).fs)

\* C1: in fastapi_server.py, _resolve_path of any caller-supplied path
\* either raises the traversal error or returns a canonical path that is
\* the root or a descendant of it, and no ls, read, write or edit call
\* opens, creates, lists or changes anything outside the root.
C1_ResolveConfined ==
    variant = FASTAPI_SERVER =>
        /\ \A key \in Keys :
              \A p \in resolve_path_fastapi_server(fs, key) :
                  UnderRoot(p) /\ Canonical(fs, p)
        /\ AllCallsConfined
        /\ ~last.outside
        /\ SameOutside(InitFs, fs)

\* A traversal through the symbolic link has been refused and the
\* filesystem holds a directory the backend made.
C1_Witness ==
    /\ variant = FASTAPI_SERVER
    /\ last.error = "traversal"
    /\ resolve_path_fastapi_server(fs, <<"b">>) = None
    /\ resolve_path_fastapi_server(fs, <<"..", Sep, "b">>) = None
    /\ \E p \in DOMAIN fs : Len(p) = 3 /\ UnderRoot(p)

\* C2: in server.py and server_fastapi.py too, no call reads, creates or
\* changes anything outside the root.
C2_SandboxEverywhere ==
    variant \in {SERVER, SERVER_FASTAPI} =>
        /\ ~last.outside
        /\ SameOutside(InitFs, fs)

\* C2, for server_fastapi.py alone
C2_SandboxServerFastapi ==
    variant = SERVER_FASTAPI => ~last.outside /\ SameOutside(InitFs, fs)

----------------------------------------------------------------------------
(* write and edit: the error paths *)

\* sub is a literal substring of s
IsSubstring(sub, s) == \E i \in 1..(Len(s) + 1) : OccursAt(s, sub, i)

\* C3: a write to a path that the resolver accepts and that exists, as a
\* file or as a directory, returns the 'already exists' error with
\* path = None and changes nothing in the filesystem, whatever the content
\* and in every state the earlier operations can leave.
C3_WriteExistingRefused ==
    \A key \in Keys, c \in FsContents :
        \A p \in resolve_path(variant, fs, key) :
            PathExists(fs, p) =>
                LET w == write(variant, fs, key, c)
                IN  /\ w.call.error = "exists"
                    /\ w.call.path = None
                    /\ w.fs = fs

\* A write to an existing path has been refused, in a filesystem that
\* holds a file written earlier.
C3_Witness ==
    /\ last.op = "write"
    /\ last.error = "exists"
    /\ \E p \in DOMAIN fs \ DOMAIN InitFs : IsFileAt(fs, p)

\* C9: edit short-circuits.  When the path is rejected, or the target is
\* missing or not a regular file, or old_string does not occur in the
\* content, edit returns an error (the first that applies, in that order)
\* with path = None and occurrences = None, and the filesystem is unchanged.
C9_EditShortCircuits ==
    \A key \in Keys, old \in FsContents, new \in FsContents, all \in BOOLEAN :
        LET r == resolve_path(variant, fs, key)
            e == edit(variant, fs, key, old, new, all)
            rejected == r = None
            missing == ~rejected /\ ~PathIsFile(fs, The(r))
            absent == ~rejected /\ ~missing /\ ~IsSubstring(old, ReadFile(fs, The(r)))
        IN  /\ rejected => e.call.error = "traversal"
            /\ missing => e.call.error = "not_found"
            /\ absent => e.call.error = "string_not_found"
            /\ (rejected \/ missing \/ absent) =>
                  /\ e.call.path = None
                  /\ e.call.occurrences = None
                  /\ e.fs = fs

\* An edit has failed because old_string is not in the file.
C9_Witness ==
    /\ last.op = "edit"
    /\ last.error = "string_not_found"

----------------------------------------------------------------------------
(* One file: texts written and read back, documents edited *)

Strs(chars, n) == UNION {[1..k -> chars] : k \in 0..n}

DocKey == <<"a">>                   \* the file_path "a" ...
DocPath == CWD \o DocKey            \* ... which names /a/a

TextChars == {"x", " ", NL}
Texts == Strs(TextChars, MaxTextLen)

\* A client is about to write a text to a new path.
InitText ==
    /\ variant = FASTAPI_SERVER
    /\ fs = InitFs
    /\ \E c \in Texts : last = [op |-> "pending", content |-> c]
    /\ tx = NoTx
    /\ RateIdle

\* The write request is served.
WriteText ==
    /\ last.op = "pending"
    /\ LET w == write(variant, fs, DocKey, last.content)
       IN  /\ fs' = w.fs
           /\ last' = [op |-> "write", content |-> last.content,
                       error |-> w.call.error, path |-> w.call.path]
    /\ UNCHANGED <<variant, tx>>
    /\ UNCHANGED <<rateVars, serverVars>>

\* The same client reads the file back at once, offset and limit left at
\* their defaults.
ReadText ==
    /\ last.op = "write"
    /\ LET r == read(variant, fs, DocKey, DefaultOffset, DefaultLimit)
       IN  last' = [op |-> "read", content |-> last.content,
                    error |-> r.error, kind |-> r.out.kind, text |-> r.out.text]
    /\ UNCHANGED <<variant, fs, tx>>
    /\ UNCHANGED <<rateVars, serverVars>>

NextText == WriteText \/ ReadText

SpecText == InitText /\ [][NextText]_vars

EditChars == {"x", "y"}
Docs == Strs(EditChars, MaxDocLen)
EditArgs == Strs(EditChars, MaxArgLen)

\* A file of any content, and an edit request about to be served.
InitEdit ==
    /\ variant = FASTAPI_SERVER
    /\ \E c \in Docs : fs = Put(InitFs, DocPath, FileNode(c))
    /\ \E old \in EditArgs, new \in EditArgs, all \in BOOLEAN :
          last = [op |-> "pending", old_string |-> old, new_string |-> new,
                  replace_all |-> all]
    /\ tx = NoTx
    /\ RateIdle

\* The edit request is served.
EditDoc ==
    /\ last.op = "pending"
    /\ LET e == edit(variant, fs, DocKey, last.old_string, last.new_string,
                     last.replace_all)
       IN  /\ fs' = e.fs
           /\ last' = [op |-> "edit", old_string |-> last.old_string,
                       new_string |-> last.new_string,
                       replace_all |-> last.replace_all,
                       before |-> fs[DocPath].content,
                       error |-> e.call.error, path |-> e.call.path,
                       occurrences |-> e.call.occurrences]
    /\ UNCHANGED <<variant, tx>>
    /\ UNCHANGED <<rateVars, serverVars>>

NextEdit == EditDoc

SpecEdit == InitEdit /\ [][NextEdit]_vars

----------------------------------------------------------------------------
(* write then read *)

AllWhitespace(c) == \A i \in 1..Len(c) : c[i] \in Whitespace

\* c without its final line end, when it has one
DropFinalNL(c) == IF c # <<>> /\ c[Len(c)] = NL THEN SubSeq(c, 1, Len(c) - 1) ELSE c

\* The number prefix of line k (k < 10): the number right-aligned in five
\* characters, then " | ".
NumberPrefix(k) == <<" ", " ", " ", " ", Digit(k), " ", "|", " ">>
PrefixLen == Len(NumberPrefix(1))

----------------------------------------------------------------------------
(* edit: what is replaced *)

\* The occurrences of old in s that a scan from the left finds when each
\* search resumes after the end of the occurrence before: the positions
\* where old occurs and that no earlier position of the set overlaps.
ScanSet(s, old) ==
    CHOOSE P \in SUBSET (1..(Len(s) + 1)) :
        \A i \in 1..(Len(s) + 1) :
            i \in P <=> /\ OccursAt(s, old, i)
                        /\ \A j \in P : ~(j < i /\ i < j + Len(old))

\* s from index i on, with new in place of old at each position of P
RECURSIVE Rebuilt(_, _, _, _, _)
Rebuilt(s, P, old, new, i) ==
    IF i > Len(s) THEN (IF i \in P THEN new ELSE <<>>)
    ELSE IF i \in P /\ old # <<>> THEN new \o Rebuilt(s, P, old, new, i + Len(old))
    ELSE IF i \in P THEN new \o <<s[i]>> \o Rebuilt(s, P, old, new, i + 1)
    ELSE <<s[i]>> \o Rebuilt(s, P, old, new, i + 1)

CharsOf(s) == {s[i] : i \in 1..Len(s)}

EditedAll == last.op = "edit" /\ last.replace_all /\ last.error = "none"

\* C7, as claimed: edit with replace_all on content with n >= 1 occurrences
\* of old_string reports n, and the content written back holds no
\* occurrence of old_string unless old_string is a substring of new_string.
C7_NoOccurrenceLeft ==
    EditedAll =>
        /\ last.occurrences = Some(Cardinality(ScanSet(last.before, last.old_string)))
        /\ ~IsSubstring(last.old_string, last.new_string) =>
              ~IsSubstring(last.old_string, fs[DocPath].content)

\* C7, amended: edit with replace_all reports the number n of occurrences
\* of old_string counted from the left without overlap, and writes back the
\* content with exactly these n occurrences replaced by new_string, so the
\* length changes by n * (len(new_string) - len(old_string)).  No occurrence
\* of old_string is left when old_string and new_string are not empty and
\* have no character in common.
C7_ReplaceAllScan ==
    EditedAll =>
        LET P == ScanSet(last.before, last.old_string)
            n == Cardinality(P)
            after == fs[DocPath].content
        IN  /\ n >= 1
            /\ last.occurrences = Some(n)
            /\ after = Rebuilt(last.before, P, last.old_string, last.new_string, 1)
            /\ Len(after) = Len(last.before)
                            + n * (Len(last.new_string) - Len(last.old_string))
            /\ (/\ last.old_string # <<>>
                /\ last.new_string # <<>>
                /\ CharsOf(last.old_string) \cap CharsOf(last.new_string) = {})
               => ~IsSubstring(last.old_string, after)

\* Two occurrences have been replaced by a string that shares no character
\* with old_string.
C7_Witness ==
    /\ EditedAll
    /\ last.occurrences = Some(2)
    /\ last.new_string # <<>>
    /\ CharsOf(last.old_string) \cap CharsOf(last.new_string) = {}

\* C8: edit without replace_all on content that holds old_string reports
\* occurrences = 1 and writes back the content with the leftmost occurrence,
\* and nothing else, replaced by new_string.
C8_ReplaceFirstOnly ==
    (last.op = "edit" /\ ~last.replace_all /\ IsSubstring(last.old_string, last.before)) =>
        LET i == CHOOSE k \in 1..(Len(last.before) + 1) :
                    /\ OccursAt(last.before, last.old_string, k)
                    /\ \A j \in 1..(k - 1) : ~OccursAt(last.before, last.old_string, j)
        IN  /\ last.error = "none"
            /\ last.occurrences = Some(1)
            /\ fs[DocPath].content =
                  SubSeq(last.before, 1, i - 1) \o last.new_string
                  \o SubSeq(last.before, i + Len(last.old_string), Len(last.before))

\* The first of several occurrences has been replaced.
C8_Witness ==
    /\ last.op = "edit"
    /\ ~last.replace_all
    /\ last.error = "none"
    /\ last.old_string # last.new_string
    /\ Cardinality({k \in 1..Len(last.before) :
                      OccursAt(last.before, last.old_string, k)}) >= 2

----------------------------------------------------------------------------
(* RateLimiter *)

Clients == {"c1", "c2"}

\* self.requests[client_id] where a missing key reads as the empty list
RequestsOf(requests, client_id) ==
    IF client_id \in DOMAIN requests THEN requests[client_id] ELSE <<>>

\* is_allowed without the eviction of old requests
is_allowed_keeping_all(l, client_id, t) ==
    LET kept == RequestsOf(l.requests, client_id)
    IN  IF Len(kept) >= l.max_requests
        THEN [allowed |-> FALSE, requests |-> (client_id :> kept) @@ l.requests]
        ELSE [allowed |-> TRUE,
              requests |-> (client_id :> Append(kept, t)) @@ l.requests]

\* is_allowed that records the attempt it rejects
is_allowed_recording_all(l, client_id, t) ==
    LET kept == SelectSeq(RequestsOf(l.requests, client_id),
                          LAMBDA req_time : t - req_time < l.window_seconds)
    IN  [allowed |-> Len(kept) < l.max_requests,
         requests |-> (client_id :> Append(kept, t)) @@ l.requests]

\* RateLimiter.is_allowed of fastapi_server.py, run under self.lock at
\* clock reading t: the result and the requests table it leaves.
is_allowed(l, client_id, t) ==
    LET kept == SelectSeq(RequestsOf(l.requests, client_id),
                          LAMBDA req_time : t - req_time < l.window_seconds)
    IN  IF Len(kept) >= l.max_requests
        THEN [allowed |-> FALSE, requests |-> (client_id :> kept) @@ l.requests]
        ELSE [allowed |-> TRUE,
              requests |-> (client_id :> Append(kept, t)) @@ l.requests]

\* RateLimiter.check_rate_limit of server_fastapi.py
check_rate_limit(l, client_id, t) ==
    LET requests == IF client_id \in DOMAIN l.requests THEN l.requests
                    ELSE (client_id :> <<>>) @@ l.requests
        kept == SelectSeq(requests[client_id],
                          LAMBDA req_time : t - req_time < l.window_seconds)
    IN  IF Len(kept) >= l.max_requests
        THEN [allowed |-> FALSE, requests |-> (client_id :> kept) @@ requests]
        ELSE [allowed |-> TRUE,
              requests |-> (client_id :> Append(kept, t)) @@ requests]

RateVariants == {FASTAPI_SERVER, SERVER_FASTAPI}

\* the admission check of the variant's rate limiter
admit(v, l, client_id, t) ==
    IF v = FASTAPI_SERVER THEN is_allowed(l, client_id, t)
    ELSE check_rate_limit(l, client_id, t)

\* RateLimiter.__init__
RateLimiter(max_requests, window_seconds) ==
    [max_requests |-> max_requests, window_seconds |-> window_seconds, requests |-> <<>>]

InitRate ==
    /\ variant \in RateVariants
    /\ fs = InitFs
    /\ last = NoCall
    /\ tx = NoTx
    /\ \E m \in 0..MaxRequests, w \in 1..MaxWindow : limiter = RateLimiter(m, w)
    /\ now = 0
    /\ admitted = [c \in Clients |-> <<>>]
    /\ verdict = NoVerdict
    /\ server = NoServer
    /\ workers = NoWorkers

\* The clock advances.
Tick ==
    /\ now < MaxTime
    /\ now' = now + 1
    /\ UNCHANGED <<backendVars, limiter, admitted, verdict, serverVars>>

\* A request of client_id reaches the admission check.
Admit(client_id) ==
    LET r == admit(variant, limiter, client_id, now)
        rejected_before == verdict.client = client_id /\ ~verdict.allowed
    IN  /\ limiter' = [limiter EXCEPT !.requests = r.requests]
        /\ admitted' = IF r.allowed
                       THEN [admitted EXCEPT ![client_id] = Append(@, now)]
                       ELSE admitted
        /\ verdict' = [client |-> client_id, at |-> now, allowed |-> r.allowed,
                       readmitted |-> r.allowed /\ rejected_before]
        /\ UNCHANGED <<backendVars, now, serverVars>>

NextRate == Tick \/ \E c \in Clients : Admit(c)

SpecRate == InitRate /\ [][NextRate]_vars

\* The clock keeps advancing and a client keeps sending requests.
SpecRateLive ==
    /\ SpecRate
    /\ WF_vars(Tick)
    /\ \A c \in Clients : WF_vars(Admit(c))

\* C4: the admitted calls of a client whose timestamps lie in one interval
\* of length window_seconds, here the interval from s to s + window_seconds
\* with both ends, are never more than max_requests.
C4_WindowBound ==
    \A c \in Clients : \A s \in 0..MaxTime :
        Cardinality({i \in DOMAIN admitted[c] :
                        s <= admitted[c][i] /\ admitted[c][i] <= s + limiter.window_seconds})
            <= limiter.max_requests

\* Every recorded admission of client c is more than window_seconds old.
WindowPassed(c) ==
    \A i \in DOMAIN RequestsOf(limiter.requests, c) :
        now - RequestsOf(limiter.requests, c)[i] > limiter.window_seconds

\* C5: with max_requests >= 1, a client whose recorded admissions are all
\* more than window_seconds old is admitted by its next check; and a client
\* that was rejected, and that keeps sending requests while the clock
\* advances past the window, is eventually admitted again.
C5_EventuallyAdmitted ==
    /\ [](\A c \in Clients :
            (limiter.max_requests >= 1 /\ WindowPassed(c))
                => admit(variant, limiter, c, now).allowed)
    /\ \A c \in Clients :
          (/\ verdict.client = c
           /\ ~verdict.allowed
           /\ limiter.max_requests >= 1
           /\ now + limiter.window_seconds <= MaxTime)
          ~> (verdict.client = c /\ verdict.allowed)

\* A client that was rejected is admitted once its window has passed.
C5_Witness ==
    /\ verdict.readmitted
    /\ verdict.allowed
    /\ limiter.max_requests >= 1
    /\ \E i \in DOMAIN admitted[verdict.client] :
          verdict.at - admitted[verdict.client][i] > limiter.window_seconds

----------------------------------------------------------------------------
(* edit, one system call at a time *)

RaceVariants == {FASTAPI_SERVER, SERVER}
RaceDocs == Strs(EditChars, MaxArgLen)

InitRace ==
    /\ variant \in RaceVariants
    /\ \E c \in RaceDocs \ {<<>>} : fs = Put(InitFs, DocPath, FileNode(c))
    /\ last = [op |-> "none"]
    /\ tx = NoTx
    /\ RateIdle

\* edit up to its second open(): the path is resolved, the file is read,
\* old_string is found in it and new_content is computed.
EditBegin ==
    /\ tx.pc \in {"idle", "done", "failed"}
    /\ \E old_string \in EditArgs \ {<<>>}, new_string \in EditArgs, replace_all \in BOOLEAN :
          LET e == edit(variant, fs, DocKey, old_string, new_string, replace_all)
          IN  /\ e.call.error = "none"
              /\ Len(ReadFile(e.fs, DocPath)) <= MaxArgLen
              /\ tx' = [pc |-> "read", path |-> DocPath,
                        content |-> ReadFile(fs, DocPath),
                        new_content |-> ReadFile(e.fs, DocPath)]
    /\ last' = [op |-> "none"]
    /\ UNCHANGED <<variant, fs, rateVars, serverVars>>

\* open(resolved_path, "w"): the file is truncated.
EditOpen ==
    /\ tx.pc = "read"
    /\ fs' = OpenWrite(fs, tx.path, <<>>).fs
    /\ tx' = [tx EXCEPT !.pc = "opened"]
    /\ UNCHANGED <<variant, last, rateVars, serverVars>>

\* f.write(new_content) and the close that ends the with block
EditWrite ==
    /\ tx.pc = "opened"
    /\ fs' = Put(fs, tx.path, FileNode(tx.new_content))
    /\ tx' = [tx EXCEPT !.pc = "done"]
    /\ UNCHANGED <<variant, last, rateVars, serverVars>>

\* f.write(new_content) or the close raises (OSError, UnicodeEncodeError)
\* after k characters have reached the file; edit returns the error.
EditWriteFails ==
    /\ tx.pc = "opened"
    /\ \E k \in 0..(Len(tx.new_content) - 1) :
          fs' = Put(fs, tx.path, FileNode(SubSeq(tx.new_content, 1, k)))
    /\ tx' = [tx EXCEPT !.pc = "failed"]
    /\ UNCHANGED <<variant, last, rateVars, serverVars>>

\* Another worker reads the file while the edit runs.
ReadDuringEdit ==
    /\ tx.pc \in {"read", "opened"}
    /\ last' = [op |-> "read", content |-> ReadFile(fs, DocPath)]
    /\ UNCHANGED <<variant, fs, tx, rateVars, serverVars>>

NextRace == EditBegin \/ EditOpen \/ EditWrite \/ EditWriteFails \/ ReadDuringEdit

SpecRace == InitRace /\ [][NextRace]_vars

\* C10: from the moment an edit has read the file, the file holds, and every
\* read that overlaps the edit returns, either the complete content before
\* the edit or the complete content after it; this is so too when the
\* write-back has failed.
C10_NoPartialWrite ==
    tx.pc # "idle" =>
        /\ ReadFile(fs, DocPath) \in {tx.content, tx.new_content}
        /\ last.op = "read" => last.content \in {tx.content, tx.new_content}

----------------------------------------------------------------------------
(* Searching: grep_raw and glob_info over the filesystem the writes build *)

GrepPatterns == {<<"x">>, <<"y">>, <<BadChar>>, <<"x", BadChar>>}
GlobPatterns == {<<"*">>, <<Sep, "*">>, <<"a">>, <<"b">>, <<>>}
GlobFilters == {None, Some(<<"*">>), Some(<<"a">>), Some(<<>>)}
OptKeys == {None} \cup {Some(k) : k \in Keys}

\* What the model keeps of a search: the summary of the call, whether the
\* call resolved the base path, and whether it found anything; for grep also
\* whether the base path is one the resolver rejects.
SearchSummary(call) ==
    [op |-> call.op, error |-> call.error,
     outside |-> \E p \in call.touched : ~UnderRoot(p),
     resolved |-> call.resolved # None,
     found |-> IF call.out.kind = "matches" THEN call.out.matches # {}
               ELSE IF call.out.kind = "files" THEN call.out.files # <<>>
               ELSE FALSE]

Grep ==
    \E path \in OptKeys, pattern \in {<<"x">>, <<BadChar>>} :
        /\ last' = SearchSummary(grep_raw(variant, fs, pattern, path, None))
                   @@ [rejected |-> \E k \in path : resolve_path(variant, fs, k) = None]
        /\ UNCHANGED <<variant, fs, tx>>
        /\ UNCHANGED <<rateVars, serverVars>>

\* The base paths and the patterns of the searches by name of a run
GlobBases == Keys \cup {<<"d.t">>}
GlobCalls == {<<"*">>, <<"*", ".t">>}

Glob ==
    \E path \in GlobBases, pattern \in GlobCalls :
        /\ last' = SearchSummary(glob_info(variant, fs, pattern, path))
                   @@ [invalid |-> InvalidBase(fs, glob_search_path(variant, fs, path)),
                       suffix |-> pattern # <<"*">>]
        /\ UNCHANGED <<variant, fs, tx>>
        /\ UNCHANGED <<rateVars, serverVars>>

\* Files are written and searched.
NextSearch == Write \/ Grep

SpecSearch == Init /\ [][NextSearch]_vars

\* Files are written, directories listed and files found by name.
NextList == Write \/ Ls \/ Glob

SpecList == Init /\ [][NextList]_vars

\* Trees of files with suffixes below the root: any of these entries, each
\* with its parent.
TreeNodes ==
    (<<"a", "a.t">> :> FileNode(<<"x">>)) @@ (<<"a", "b.u">> :> FileNode(<<"x">>))
    @@ (<<"a", "d.t">> :> DirNode)
    @@ (<<"a", "d.t", "a.t">> :> FileNode(<<"x", "y">>))
    @@ (<<"a", "d.t", "b.u">> :> FileNode(<<"y">>))
    @@ (<<"a", "d.t", "d.t">> :> DirNode)

Trees ==
    {[p \in S |-> TreeNodes[p]] :
        S \in {T \in SUBSET DOMAIN TreeNodes :
                  \A p \in T : Len(p) > Len(CWD) + 1 => Parent(p) \in T}}

InitGlob ==
    /\ variant \in Variants
    /\ \E t \in Trees : fs = t @@ InitFs
    /\ last = NoCall
    /\ tx = NoTx
    /\ RateIdle

\* Searches by name over a tree
SpecGlob == InitGlob /\ [][Glob]_vars

\* C11: grep with a pattern that does not compile returns the 'Invalid
\* regex pattern' error whatever the base path is (none, existing, missing
\* or one the resolver rejects), without resolving the path and without
\* touching the filesystem.
C11_RegexErrorFirst ==
    \A path \in OptKeys, pattern \in GrepPatterns, glob \in GlobFilters :
        re_compile(pattern) = None =>
            LET g == grep_raw(variant, fs, pattern, path, glob)
            IN  /\ g.error = "regex"
                /\ g.out.kind = "regex_error"
                /\ g.resolved = None
                /\ g.touched = {}

\* grep has returned the regex error for a base path that the resolver
\* rejects.
C11_Witness ==
    /\ last.op = "grep"
    /\ last.error = "regex"
    /\ last.rejected

\* C12: in fastapi_server.py the walks of grep and glob read, and report,
\* only files whose canonical location is the root or below it.
C12_WalkConfined ==
    variant = FASTAPI_SERVER =>
        /\ \A path \in OptKeys, pattern \in GrepPatterns, glob \in GlobFilters :
              \A p \in grep_raw(variant, fs, pattern, path, glob).touched : UnderRoot(p)
        /\ \A path \in Keys, pattern \in GlobPatterns :
              \A p \in glob_info(variant, fs, pattern, path).touched : UnderRoot(p)

----------------------------------------------------------------------------
(* The resolver's treatment of ".." and of a leading separator *)

\* C13: the resolver of fastapi_server.py and of server_fastapi.py rejects
\* every path that has a ".." segment, also one that resolves to a place
\* inside the root.
C13_DotDotRejected ==
    variant \in {FASTAPI_SERVER, SERVER_FASTAPI} =>
        \A key \in Keys : HasDotDot(key) => resolve_path(variant, fs, key) = None

\* The two calls return the same thing and touch the same files.
SameCall(c1, c2) ==
    /\ c1.error = c2.error
    /\ c1.out = c2.out
    /\ c1.touched = c2.touched

\* C14: in every variant, for a path x that has no ".." segment and no
\* leading separator, each operation on "/" + x gives the result of the
\* operation on x and addresses the same files.
C14_LeadingSepStripped ==
    \A x \in Keys :
        (~HasDotDot(x) /\ ~StartsWithSep(x)) =>
            LET sx == <<Sep>> \o x
            IN  /\ SameCall(ls_info(variant, fs, sx), ls_info(variant, fs, x))
                /\ SameCall(read(variant, fs, sx, DefaultOffset, DefaultLimit),
                            read(variant, fs, x, DefaultOffset, DefaultLimit))
                /\ \A c \in FsContents :
                      LET w1 == write(variant, fs, sx, c)
                          w2 == write(variant, fs, x, c)
                      IN  w1.fs = w2.fs /\ SameCall(w1.call, w2.call)
                /\ \A old \in FsContents, new \in FsContents, all \in BOOLEAN :
                      LET e1 == edit(variant, fs, sx, old, new, all)
                          e2 == edit(variant, fs, x, old, new, all)
                      IN  e1.fs = e2.fs /\ SameCall(e1.call, e2.call)
                /\ \A pattern \in GrepPatterns :
                      SameCall(grep_raw(variant, fs, pattern, Some(sx), None),
                               grep_raw(variant, fs, pattern, Some(x), None))
                /\ \A pattern \in GlobPatterns :
                      SameCall(glob_info(variant, fs, pattern, sx),
                               glob_info(variant, fs, pattern, x))

----------------------------------------------------------------------------
(* Listings and searches *)

\* For every base path and every pattern, ls_info and glob_info return a
\* list, and the empty list when the base path is rejected by the resolver,
\* does not exist or is not a directory.
LsGlobReturnLists ==
    \A path \in Keys :
        /\ LET l == ls_info(variant, fs, path)
           IN  /\ l.error = "none"
               /\ l.out.kind = "files"
               /\ InvalidBase(fs, ls_dir_path(variant, fs, path)) =>
                      l.out.files = <<>> /\ l.touched = {}
        /\ \A pattern \in GlobPatterns :
              LET g == glob_info(variant, fs, pattern, path)
              IN  /\ g.error = "none"
                  /\ g.out.kind = "files"
                  /\ InvalidBase(fs, glob_search_path(variant, fs, path)) =>
                         g.out.files = <<>> /\ g.touched = {}

\* A step that lists or searches leaves the filesystem as it was.
LsGlobKeepFs == last'.op \in {"ls", "glob"} => fs' = fs

C20_GrepPathsRelative ==
    \A path \in OptKeys, pattern \in GrepPatterns, glob \in GlobFilters :
        LET g == grep_raw(variant, fs, pattern, path, glob)
        IN  g.out.kind = "matches" =>
                \A m \in g.out.matches : ~StartsWithSep(m.path)

\* The paths at or below base: base followed by any run of names.
AtOrUnder(f, base) ==
    {base \o SubSeq(q, k, Len(q)) : q \in DOMAIN f, k \in 1..(MaxSegs + 2)}

\* C29: every match of a grep has the path of the resolved base or of a
\* descendant of it, also when the base is a regular file.
C29_GrepUnderBase ==
    \A path \in OptKeys, pattern \in GrepPatterns :
        LET g == grep_raw(variant, fs, pattern, path, None)
        IN  (g.out.kind = "matches" /\ g.resolved # None) =>
                \A m \in g.out.matches :
                    \E fp \in AtOrUnder(fs, The(g.resolved)) :
                        m.path = ShownPath(variant, fp)

----------------------------------------------------------------------------
(* The HTTP servers of fastapi_server.py and server_fastapi.py *)

ApiKey == "key"                     \* the configured key
Headers == {None, Some(""), Some("wrong"), Some(ApiKey)}   \* X-API-Key
Endpoints == {"health", "ls", "read", "write", "edit", "grep", "glob"}
ApiEndpoints == Endpoints \ {"health"}

\* The body of a write, the strings of an edit, the pattern of a search
HttpContent == <<"x">>
HttpOldString == <<"x">>
HttpNewString == <<"y">>
HttpGrepPattern == <<"x">>
HttpGlobPattern == <<"*">>

\* A request: the endpoint, the X-API-Key header, the peer's address and
\* the path or file_path it carries.
Request(endpoint, x_api_key, host, path) ==
    [endpoint |-> endpoint, x_api_key |-> x_api_key, host |-> host, path |-> path]

\* A validator that accepts every file_path
validate_path_accepting(v, file_path) == TRUE

\* WriteRequest.validate_path and EditRequest.validate_path, with the
\* min_length of the field: TRUE when file_path is accepted.
validate_path(v, file_path) ==
    IF v = FASTAPI_SERVER
    THEN Len(file_path) >= 1 /\ ~HasDotDot(file_path) /\ ~StartsWithSep(file_path)
    ELSE ~HasDotDot(file_path)

\* The framework's validation of the request before the handler's body
\* runs: only write and edit carry a validated model.
request_valid(v, req) ==
    req.endpoint \in {"write", "edit"} => validate_path(v, req.path)

\* A key check that lets every request through
verify_api_key_open(v, srv, x_api_key) == None

\* _verify_api_key of fastapi_server.py and verify_api_key of
\* server_fastapi.py: None when the request passes, else the status of the
\* HTTPException.
verify_api_key(v, srv, x_api_key) ==
    IF v = FASTAPI_SERVER
    THEN IF ~srv.enable_auth THEN None
         ELSE IF x_api_key = None \/ x_api_key = Some("") THEN Some(401)
         ELSE IF x_api_key # Some(ApiKey) THEN Some(403)
         ELSE None
    ELSE IF x_api_key = None \/ x_api_key = Some("") THEN Some(401)
         ELSE IF x_api_key # Some(ApiKey) THEN Some(401)
         ELSE None

\* The client a request is counted for: the peer's address in
\* fastapi_server.py, the verified key in server_fastapi.py.
client_id_of(v, req) == IF v = FASTAPI_SERVER THEN req.host ELSE The(req.x_api_key)

\* _check_rate_limit and check_rate_limit: whether the request is let
\* through, the requests table afterwards, whether the limiter was asked.
rate_limit(v, srv, l, t, req) ==
    IF ~srv.enable_rate_limit
    THEN [allowed |-> TRUE, requests |-> l.requests, checked |-> FALSE]
    ELSE LET r == admit(v, l, client_id_of(v, req), t)
         IN  [allowed |-> r.allowed, requests |-> r.requests, checked |-> TRUE]

\* The handler's call of the backend and the status of its response.
backend_call(v, f, req) ==
    IF req.endpoint = "write"
    THEN LET w == write(v, f, req.path, HttpContent)
         IN  [status |-> IF w.call.error = "none" THEN 200 ELSE 400, fs |-> w.fs]
    ELSE IF req.endpoint = "edit"
    THEN LET e == edit(v, f, req.path, HttpOldString, HttpNewString, FALSE)
         IN  [status |-> IF e.call.error = "none" THEN 200 ELSE 400, fs |-> e.fs]
    ELSE IF req.endpoint = "grep"
    THEN LET g == grep_raw(v, f, HttpGrepPattern, Some(req.path), None)
         IN  [status |-> IF g.error = "regex" THEN 400 ELSE 200, fs |-> f]
    ELSE [status |-> 200, fs |-> f]

\* What a request leaves: the status of the response, the filesystem, the
\* limiter's requests table, and which of the key check, the admission
\* check and the backend ran.
Reply(status, f, requests, verified, checked, ran) ==
    [status |-> status, fs |-> f, requests |-> requests,
     verified |-> verified, checked |-> checked, ran |-> ran]

\* The checks a request to /api/* goes through before the backend is
\* called, given the outcome of each: valid is the framework's validation
\* of the request, key the key check, rate the admission check.
\* fastapi_server.py checks the key and the rate inside the handler, which
\* the framework calls once the request is validated; server_fastapi.py
\* checks them in a dependency, which the framework runs before it
\* validates the body.  The result is the status of the rejection, or None,
\* with the requests table and the checks that ran.
Checked(status, requests, verified, checked) ==
    [status |-> status, requests |-> requests, verified |-> verified,
     checked |-> checked]

\* Checks that put the request to the admission check before the key check
checks_counting_first(v, valid, key, rate, requests) ==
    IF v = FASTAPI_SERVER /\ ~valid THEN Checked(Some(422), requests, FALSE, FALSE)
    ELSE IF ~rate.allowed THEN Checked(Some(429), rate.requests, FALSE, rate.checked)
    ELSE IF key # None THEN Checked(key, rate.requests, TRUE, rate.checked)
    ELSE IF ~valid THEN Checked(Some(422), rate.requests, TRUE, rate.checked)
    ELSE Checked(None, rate.requests, TRUE, rate.checked)

checks(v, valid, key, rate, requests) ==
    IF v = FASTAPI_SERVER
    THEN IF ~valid THEN Checked(Some(422), requests, FALSE, FALSE)
         ELSE IF key # None THEN Checked(key, requests, TRUE, FALSE)
         ELSE IF ~rate.allowed THEN Checked(Some(429), rate.requests, TRUE, rate.checked)
         ELSE Checked(None, rate.requests, TRUE, rate.checked)
    ELSE IF key # None THEN Checked(key, requests, TRUE, FALSE)
         ELSE IF ~rate.allowed THEN Checked(Some(429), rate.requests, TRUE, rate.checked)
         ELSE IF ~valid THEN Checked(Some(422), rate.requests, TRUE, rate.checked)
         ELSE Checked(None, rate.requests, TRUE, rate.checked)

\* The response to a request to /api/*: the rejection, or what the backend
\* call gives.
respond(pre, f, done) ==
    IF pre.status # None
    THEN Reply(The(pre.status), f, pre.requests, pre.verified, pre.checked, FALSE)
    ELSE Reply(done.status, done.fs, pre.requests, pre.verified, pre.checked, TRUE)

\* One request through the server; /health has no check and no backend
\* call.
handle(v, srv, l, t, f, req) ==
    IF req.endpoint = "health"
    THEN Reply(200, f, l.requests, FALSE, FALSE, FALSE)
    ELSE respond(checks(v, request_valid(v, req),
                        verify_api_key(v, srv, req.x_api_key),
                        rate_limit(v, srv, l, t, req), l.requests),
                 f, backend_call(v, f, req))

\* The paths the requests of a run carry: a new file, the link, a
\* traversal, an absolute path, the empty string.
HttpPaths == {<<"a">>, <<"b">>, <<"..", Sep, "a">>, <<Sep, "a">>, <<>>}
HttpHost == "c1"

\* FastAPIFileServer.__init__ and create_app; create_app has no switch for
\* the key check.
InitHttp ==
    /\ variant \in RateVariants
    /\ fs = InitFs
    /\ last = NoCall
    /\ tx = NoTx
    /\ limiter = RateLimiter(MaxRequests, MaxWindow)
    /\ now = 0
    /\ admitted = [c \in Clients |-> <<>>]
    /\ verdict = NoVerdict
    /\ server \in [enable_auth : BOOLEAN, enable_rate_limit : BOOLEAN]
    /\ variant = SERVER_FASTAPI => server.enable_auth
    /\ workers = NoWorkers

\* The server answers a request to the endpoint.
Serve(endpoint) ==
    \E x_api_key \in Headers, path \in HttpPaths :
        LET req == Request(endpoint, x_api_key, HttpHost, path)
            rsp == handle(variant, server, limiter, now, fs, req)
        IN  /\ Cardinality(DOMAIN rsp.fs) <= MaxNodes
            /\ fs' = rsp.fs
            /\ limiter' = [limiter EXCEPT !.requests = rsp.requests]
            /\ last' = [op |-> endpoint, error |-> "none", outside |-> FALSE,
                        status |-> rsp.status, ran |-> rsp.ran,
                        valid |-> request_valid(variant, req),
                        right_key |-> x_api_key = Some(ApiKey)]
            /\ UNCHANGED <<variant, tx, now, admitted, verdict, server, workers>>

NextHttp == \E endpoint \in Endpoints : Serve(endpoint)

SpecHttp == InitHttp /\ [][NextHttp]_vars

\* Every request: to each endpoint, with each header, from each peer, with
\* each path.
Requests ==
    {Request(endpoint, x_api_key, host, path) :
        endpoint \in Endpoints, x_api_key \in Headers, host \in Clients, path \in Keys}

\* The response of the server, as it is now, to the request.
Response(req) == handle(variant, server, limiter, now, fs, req)

\* A write or an edit whose file_path has a ".." segment or, in
\* fastapi_server.py, a leading separator.
BadFilePath(req) ==
    /\ req.endpoint \in {"write", "edit"}
    /\ HasDotDot(req.path) \/ (variant = FASTAPI_SERVER /\ StartsWithSep(req.path))

\* The request carries no key: no X-API-Key header, or an empty one.
NoKey(req) == req.x_api_key = None \/ req.x_api_key = Some("")

\* C15 as stated: every write or edit request with such a file_path is
\* answered 422, and no backend operation runs.
C15_Always422 ==
    \A req \in Requests :
        BadFilePath(req) =>
            LET rsp == Response(req)
            IN  rsp.status = 422 /\ ~rsp.ran /\ rsp.fs = fs

\* C15: a write or edit request with such a file_path never reaches the
\* backend and leaves the filesystem as it is.  fastapi_server.py answers
\* it 422; server_fastapi.py, which checks the key and the rate before the
\* body, answers 401 without the right key, 429 to a client over its limit
\* and 422 otherwise.
C15_RejectedBeforeBackend ==
    \A req \in Requests :
        BadFilePath(req) =>
            LET rsp == Response(req)
            IN  /\ ~rsp.ran
                /\ rsp.fs = fs
                /\ variant = FASTAPI_SERVER => rsp.status = 422
                /\ variant = SERVER_FASTAPI =>
                      /\ req.x_api_key # Some(ApiKey) => rsp.status = 401
                      /\ req.x_api_key = Some(ApiKey) => rsp.status \in {422, 429}
                      /\ (req.x_api_key = Some(ApiKey) /\ ~server.enable_rate_limit) =>
                             rsp.status = 422

\* server_fastapi.py has answered 422 to a write or an edit that the
\* validator rejects, without a backend call.
C15_Witness ==
    /\ variant = SERVER_FASTAPI
    /\ last.op \in {"write", "edit"}
    /\ ~last.valid
    /\ last.status = 422
    /\ ~last.ran

\* C16: with rate limiting enabled, every request to /api/* that passes
\* the key check is put to the admission check, whether or not its path is
\* valid: the limiter is asked, and the requests table is the one the
\* admission check leaves.
C16_AdmissionFirst ==
    server.enable_rate_limit =>
        \A req \in Requests :
            (req.endpoint \in ApiEndpoints
             /\ verify_api_key(variant, server, req.x_api_key) = None) =>
                LET rsp == Response(req)
                IN  /\ rsp.checked
                    /\ rsp.requests =
                          admit(variant, limiter, client_id_of(variant, req), now).requests

C26_GatesInOrder ==
    variant = FASTAPI_SERVER =>
        \A req \in Requests :
            LET rsp == Response(req)
                key == verify_api_key(variant, server, req.x_api_key)
            IN  /\ rsp.status \in {401, 403} =>
                      /\ ~rsp.checked
                      /\ rsp.requests = limiter.requests
                      /\ ~rsp.ran
                      /\ rsp.fs = fs
                /\ rsp.status = 429 =>
                      /\ key = None
                      /\ rsp.checked
                      /\ ~rsp.ran
                      /\ rsp.fs = fs
                /\ rsp.checked => key = None
                /\ rsp.ran =>
                      /\ key = None
                      /\ rate_limit(variant, server, limiter, now, req).allowed
                      /\ rsp.status \notin {401, 403, 429}

\* fastapi_server.py, with both gates enabled, has answered 429 to a
\* request with the right key, without a backend call.
C26_Witness ==
    /\ variant = FASTAPI_SERVER
    /\ server.enable_auth
    /\ server.enable_rate_limit
    /\ last.op \in ApiEndpoints
    /\ last.right_key
    /\ last.status = 429
    /\ ~last.ran

----------------------------------------------------------------------------
(* Admission checks of concurrent workers *)

\* The workers call the limiter's admission check for a client, each a
\* thread that may be switched out between any two of the check's steps.
\* is_allowed of fastapi_server.py takes self.lock for the whole check;
\* check_rate_limit of server_fastapi.py takes no lock.

InitWorkers ==
    /\ variant \in RateVariants
    /\ fs = InitFs
    /\ last = NoCall
    /\ tx = NoTx
    /\ limiter = RateLimiter(MaxRequests, MaxWindow)
    /\ now = 0
    /\ admitted = [c \in Clients |-> <<>>]
    /\ verdict = NoVerdict
    /\ server = NoServer
    /\ workers = NoWorkers

\* The worker is inside an admission check.
Inside(w) == workers[w].pc # "idle"

\* The worker enters the check: with self.lock (fastapi_server.py), then
\* now = time.time() and, in server_fastapi.py, the test
\* client_id not in self.requests.  No check starts for a client that has
\* MaxAdmitted admitted calls.
Enter(w, client_id) ==
    /\ ~Inside(w)
    /\ Len(admitted[client_id]) < MaxAdmitted
    /\ variant = FASTAPI_SERVER => \A o \in Workers : ~Inside(o)
    /\ workers' = [workers EXCEPT ![w] =
                      [pc |-> IF variant = FASTAPI_SERVER THEN "evict" ELSE "ensure",
                       client |-> client_id, t |-> now,
                       missing |-> client_id \notin DOMAIN limiter.requests,
                       kept |-> <<>>]]
    /\ UNCHANGED <<backendVars, rateVars, server>>

\* self.requests[client_id] = [] when the test found no entry
Ensure(w) ==
    /\ workers[w].pc = "ensure"
    /\ limiter' = IF workers[w].missing
                  THEN [limiter EXCEPT !.requests = (workers[w].client :> <<>>) @@ @]
                  ELSE limiter
    /\ workers' = [workers EXCEPT ![w].pc = "evict"]
    /\ UNCHANGED <<backendVars, now, admitted, verdict, server>>

\* The list comprehension over self.requests[client_id]
EvictRead(w) ==
    /\ workers[w].pc = "evict"
    /\ workers' = [workers EXCEPT
                      ![w].pc = "store",
                      ![w].kept = SelectSeq(RequestsOf(limiter.requests, workers[w].client),
                                            LAMBDA req_time :
                                                workers[w].t - req_time < limiter.window_seconds)]
    /\ UNCHANGED <<backendVars, rateVars, server>>

\* self.requests[client_id] = the list built
EvictStore(w) ==
    /\ workers[w].pc = "store"
    /\ limiter' = [limiter EXCEPT !.requests = (workers[w].client :> workers[w].kept) @@ @]
    /\ workers' = [workers EXCEPT ![w].pc = "count"]
    /\ UNCHANGED <<backendVars, now, admitted, verdict, server>>

\* if len(self.requests[client_id]) >= self.max_requests: return False
Count(w) ==
    /\ workers[w].pc = "count"
    /\ workers' = IF Len(RequestsOf(limiter.requests, workers[w].client)) >= limiter.max_requests
                  THEN [workers EXCEPT ![w] = IdleWorker]
                  ELSE [workers EXCEPT ![w].pc = "record"]
    /\ UNCHANGED <<backendVars, rateVars, server>>

\* self.requests[client_id].append(now); return True
Record(w) ==
    /\ workers[w].pc = "record"
    /\ limiter' = [limiter EXCEPT !.requests =
                      (workers[w].client :>
                          Append(RequestsOf(limiter.requests, workers[w].client), workers[w].t))
                      @@ @]
    /\ admitted' = [admitted EXCEPT ![workers[w].client] = Append(@, workers[w].t)]
    /\ workers' = [workers EXCEPT ![w] = IdleWorker]
    /\ UNCHANGED <<backendVars, now, verdict, server>>

NextWorkers ==
    \/ Tick
    \/ \E w \in Workers :
          \/ \E c \in Clients : Enter(w, c)
          \/ Ensure(w)
          \/ EvictRead(w)
          \/ EvictStore(w)
          \/ Count(w)
          \/ Record(w)

SpecWorkers == InitWorkers /\ [][NextWorkers]_vars

\* C17: in both rate limiters the checks of two workers for one client are
\* never in progress together, and the calls admitted for a client whose
\* times lie within window_seconds before now are never more than
\* max_requests.
C17_WindowExclusive ==
    /\ \A w1 \in Workers, w2 \in Workers :
          (Inside(w1) /\ Inside(w2) /\ workers[w1].client = workers[w2].client) => w1 = w2
    /\ \A c \in Clients :
          Cardinality({i \in DOMAIN admitted[c] :
                          now - admitted[c][i] < limiter.window_seconds})
              <= limiter.max_requests

----------------------------------------------------------------------------
(* glob("*.ext", base) *)

Suffixes == {".t", ".u"}

\* The characters s end with the characters e.
EndsWith(s, e) == Len(e) <= Len(s) /\ SubSeq(s, Len(s) - Len(e) + 1, Len(s)) = e

\* The paths, as the variant shows them, of the files at any depth below
\* the directory base whose name ends with the suffix.
FilesWithSuffix(v, f, base, suffix) ==
    LET d == The(Lookup(f, base))
    IN  {ShownPath(v, base \o SubSeq(x, Len(d) + 1, Len(x))) :
            x \in {y \in DOMAIN f :
                     /\ IsPrefix(d, y) /\ y # d
                     /\ PathIsFile(f, y)
                     /\ EndsWith(Codes(y[Len(y)]), Codes(suffix))}}

\* C21: in every variant, glob("*.ext", base) on an existing directory
\* returns the files at any depth below base whose name ends with the
\* suffix, each once, no directory and nothing else, in ascending order of
\* path.
C21_GlobSuffix ==
    \A base \in GlobBases, suffix \in Suffixes :
        LET r == glob_search_path(variant, fs, base)
            files == glob_info(variant, fs, <<"*", suffix>>, base).out.files
        IN  ~InvalidBase(fs, r) =>
                /\ {files[i].path : i \in 1..Len(files)}
                       = FilesWithSuffix(variant, fs, The(r), suffix)
                /\ Len(files) = Cardinality(FilesWithSuffix(variant, fs, The(r), suffix))
                /\ \A i \in 1..Len(files) : ~files[i].is_dir
                /\ \A i \in 1..Len(files), j \in 1..Len(files) :
                      i < j => LexLess(StrCodes(files[i].path), StrCodes(files[j].path))

\* glob("*.t", base) has found files below an existing directory in a tree
\* that also holds a directory and a file it must leave out.
C21_Witness ==
    /\ last.op = "glob"
    /\ last.suffix
    /\ last.found
    /\ ~last.invalid
    /\ <<"a", "d.t", "d.t">> \in DOMAIN fs
    /\ <<"a", "d.t", "b.u">> \in DOMAIN fs

----------------------------------------------------------------------------
(* A rejected admission check *)

\* The recorded timestamps of client c that a check at time t does not
\* evict.
NotEvicted(l, c, t) ==
    SelectSeq(RequestsOf(l.requests, c), LAMBDA req_time : t - req_time < l.window_seconds)

\* The limiter after the admission check of client c at time t.
After(l, c, t) == [l EXCEPT !.requests = admit(variant, l, c, t).requests]

\* C22: a rejected admission check records nothing: it leaves the client's
\* timestamps that were not evicted, and every other client's as they
\* were, so that every later check of the client has the result it would
\* have had without the rejected one; and no client's stored window holds
\* more than max_requests timestamps.
C22_RejectedNotRecorded ==
    \A c \in Clients :
        /\ Len(RequestsOf(limiter.requests, c)) <= limiter.max_requests
        /\ LET r == admit(variant, limiter, c, now)
           IN  ~r.allowed =>
                  /\ Len(NotEvicted(limiter, c, now)) >= limiter.max_requests
                  /\ r.requests[c] = NotEvicted(limiter, c, now)
                  /\ \A o \in Clients \ {c} :
                        RequestsOf(r.requests, o) = RequestsOf(limiter.requests, o)
                  /\ \A t \in now..MaxTime :
                        admit(variant, After(limiter, c, now), c, t).allowed
                            = admit(variant, limiter, c, t).allowed

\* A check of a client whose window is full has been rejected, and the
\* window still holds max_requests timestamps.
C22_Witness ==
    /\ verdict.client \in Clients
    /\ ~verdict.allowed
    /\ verdict.at = now
    /\ limiter.max_requests >= 1
    /\ Len(RequestsOf(limiter.requests, verdict.client)) = limiter.max_requests

\* C23: an admission check at time now keeps, and counts, a recorded
\* timestamp t exactly when t >= now - window_seconds: what the check
\* stores for the client is those timestamps, followed by now when the
\* check admits.
C23_EvictsOlderOnly ==
    \A c \in Clients :
        LET r == admit(variant, limiter, c, now)
            kept == SelectSeq(RequestsOf(limiter.requests, c),
                              LAMBDA req_time : req_time >= now - limiter.window_seconds)
        IN  /\ r.requests[c] = IF r.allowed THEN Append(kept, now) ELSE kept
            /\ r.allowed <=> Len(kept) < limiter.max_requests

----------------------------------------------------------------------------
(* write, one system call at a time, on two workers *)

NoWriters == [w \in Workers |-> NoTx]

\* f.write(content) and the close, through a descriptor opened with "w":
\* the characters go to the start of the file, over what is there by now.
WriteAtStart(f, p, content) ==
    LET there == ReadFile(f, p)
    IN  Put(f, p, FileNode(content \o SubSeq(there, Len(content) + 1, Len(there))))

InitWriters ==
    /\ variant \in Variants
    /\ fs = InitFs
    /\ last = NoCall
    /\ tx = NoWriters
    /\ RateIdle

\* write up to its open(): the path is resolved and exists() is asked.
WriteCheck(w) ==
    /\ tx[w].pc = "idle"
    /\ \E content \in RaceDocs \ {<<>>} :
          LET r == resolve_path(variant, fs, DocKey)
              resolved_path == The(r)
          IN  tx' = [tx EXCEPT ![w] =
                        IF r = None
                        THEN [pc |-> "returned", error |-> "traversal", content |-> content]
                        ELSE IF PathExists(fs, resolved_path)
                        THEN [pc |-> "returned", error |-> "exists", content |-> content]
                        ELSE [pc |-> "checked", path |-> resolved_path,
                              content |-> content]]
    /\ UNCHANGED <<variant, fs, last, rateVars, serverVars>>

\* parent.mkdir(parents=True, exist_ok=True) and open(resolved_path, "w"):
\* the file is created, or truncated when it is there by now.
WriteOpen(w) ==
    /\ tx[w].pc = "checked"
    /\ LET made == MkdirParents(fs, Parent(tx[w].path))
           opened == OpenWrite(made.fs, tx[w].path, <<>>)
       IN  IF made.ok /\ opened.ok
           THEN /\ fs' = opened.fs
                /\ tx' = [tx EXCEPT ![w].pc = "opened"]
           ELSE /\ fs' = made.fs
                /\ tx' = [tx EXCEPT ![w] = [pc |-> "returned", error |-> "io",
                                            content |-> tx[w].content]]
    /\ UNCHANGED <<variant, last, rateVars, serverVars>>

\* f.write(content), the close that ends the with block, and the return
WriteStore(w) ==
    /\ tx[w].pc = "opened"
    /\ fs' = WriteAtStart(fs, tx[w].path, tx[w].content)
    /\ tx' = [tx EXCEPT ![w] = [pc |-> "returned", error |-> "none",
                                content |-> tx[w].content]]
    /\ UNCHANGED <<variant, last, rateVars, serverVars>>

NextWriters == \E w \in Workers : WriteCheck(w) \/ WriteOpen(w) \/ WriteStore(w)

SpecWriters == InitWriters /\ [][NextWriters]_vars

Succeeded(w) == tx[w].pc = "returned" /\ tx[w].error = "none"

\* C24: of two concurrent writes to the same path that did not exist, at
\* most one succeeds, the other gets the "already exists" error, and the
\* file ends with the content of the write that succeeded.
C24_CreateOnlyUnderInterleaving ==
    (\A w \in Workers : tx[w].pc = "returned") =>
        \E w \in Workers :
            /\ Succeeded(w)
            /\ ReadFile(fs, DocPath) = tx[w].content
            /\ \A o \in Workers \ {w} : tx[o].error = "exists"

----------------------------------------------------------------------------
(* edit, one system call at a time, on two workers *)

EditorOlds == {<<"x">>, <<"y">>}
EditorNews == {<<"z">>, <<>>}

InitEditors ==
    /\ variant \in Variants
    /\ \E c \in RaceDocs \ {<<>>} : fs = Put(InitFs, DocPath, FileNode(c))
    /\ last = NoCall
    /\ tx = NoWriters
    /\ RateIdle

\* edit up to its second open(): the path is resolved, the file is read,
\* old_string is looked up in it and new_content is computed.
EditorRead(w) ==
    /\ tx[w].pc = "idle"
    /\ \E old_string \in EditorOlds, new_string \in EditorNews, replace_all \in BOOLEAN :
          LET e == edit(variant, fs, DocKey, old_string, new_string, replace_all)
          IN  tx' = [tx EXCEPT ![w] =
                        IF e.call.error # "none"
                        THEN [pc |-> "returned", error |-> e.call.error]
                        ELSE [pc |-> "read", path |-> DocPath,
                              content |-> ReadFile(fs, DocPath),
                              old_string |-> old_string, new_string |-> new_string,
                              replace_all |-> replace_all,
                              new_content |-> ReadFile(e.fs, DocPath)]]
    /\ UNCHANGED <<variant, fs, last, rateVars, serverVars>>

\* An editor that, as it opens the file for writing, reads it once more
\* and computes new_content from what the file holds by then.
EditorOpenRereading(w) ==
    /\ tx[w].pc = "read"
    /\ fs' = OpenWrite(fs, tx[w].path, <<>>).fs
    /\ LET e == edit(variant, fs, DocKey, tx[w].old_string, tx[w].new_string,
                     tx[w].replace_all)
       IN  tx' = [tx EXCEPT ![w] =
                     [pc |-> "opened", before |-> {o \in Workers : Succeeded(o)},
                      new_content |-> IF e.call.error = "none"
                                      THEN ReadFile(e.fs, DocPath)
                                      ELSE tx[w].new_content] @@ tx[w]]
    /\ UNCHANGED <<variant, last, rateVars, serverVars>>

\* open(resolved_path, "w"): the file is truncated.  The editor takes no
\* lock and does not look at the file again; `before' keeps which edits
\* had returned by then.
EditorOpen(w) ==
    /\ tx[w].pc = "read"
    /\ fs' = OpenWrite(fs, tx[w].path, <<>>).fs
    /\ tx' = [tx EXCEPT ![w] = [pc |-> "opened", before |-> {o \in Workers : Succeeded(o)}]
                                @@ tx[w]]
    /\ UNCHANGED <<variant, last, rateVars, serverVars>>

\* f.write(new_content), the close that ends the with block, and the return
EditorStore(w) ==
    /\ tx[w].pc = "opened"
    /\ fs' = WriteAtStart(fs, tx[w].path, tx[w].new_content)
    /\ tx' = [tx EXCEPT ![w] = [pc |-> "returned", error |-> "none"] @@ tx[w]]
    /\ last' = [op |-> "edit", by |-> w]
    /\ UNCHANGED <<variant, rateVars, serverVars>>

NextEditors == \E w \in Workers : EditorRead(w) \/ EditorOpen(w) \/ EditorStore(w)

SpecEditors == InitEditors /\ [][NextEditors]_vars

\* C25: edit reads, modifies and writes back without a lock.  When two
\* interleaved edits have both returned success, the file holds what the
\* last edit to write computed from the content it had read, whenever the
\* other edit had returned before that one opened the file for writing; so
\* an edit that read the file before the other wrote leaves the file
\* without the other's replacement.
C25_LastWriteWins ==
    (\A w \in Workers : Succeeded(w)) =>
        \A w \in Workers : \A o \in Workers \ {w} :
            (last.by = w /\ o \in tx[w].before) =>
                /\ ReadFile(fs, DocPath) = tx[w].new_content
                /\ tx[w].content = tx[o].content =>
                      ReadFile(fs, DocPath) =
                          ReadFile(edit(variant, Put(fs, DocPath, FileNode(tx[o].content)),
                                        DocKey, tx[w].old_string, tx[w].new_string,
                                        tx[w].replace_all).fs, DocPath)

\* Both edits, of different old strings, have returned success, both had
\* read the original content, and the file is the last writer's with the
\* other's old string still in it.
C25_Witness ==
    /\ \A w \in Workers : Succeeded(w)
    /\ \E w \in Workers : \E o \in Workers \ {w} :
          /\ last.by = w
          /\ o \in tx[w].before
          /\ tx[w].old_string # tx[o].old_string
          /\ tx[w].content = tx[o].content
          /\ ReadFile(fs, DocPath) = tx[w].new_content
          /\ Contains(ReadFile(fs, DocPath), tx[o].old_string)
          /\ ~Contains(tx[o].new_content, tx[o].old_string)

----------------------------------------------------------------------------
(* read with an offset and a limit *)

\* The offsets and limits of the requests: the read endpoint takes any
\* integer for either.
ReadArgs == (-(MaxTextLen + 1))..(MaxTextLen + 1)

\* A file of any text, and clients that read it.
InitLines ==
    /\ variant = FASTAPI_SERVER
    /\ \E c \in Texts : fs = Put(InitFs, DocPath, FileNode(c))
    /\ last = NoCall
    /\ tx = NoTx
    /\ RateIdle

ReadLines ==
    /\ \E offset \in ReadArgs, limit \in ReadArgs :
          LET r == read(variant, fs, DocKey, offset, limit)
          IN  last' = [op |-> "read", error |-> r.error, outside |-> FALSE,
                       kind |-> r.out.kind, text |-> r.out.text]
    /\ UNCHANGED <<variant, fs, tx, rateVars, serverVars>>

NextLines == ReadLines

SpecLines == InitLines /\ [][NextLines]_vars

\* What a read of the file returns
ReadOut(offset, limit) == read(variant, fs, DocKey, offset, limit).out

\* C27: for a file whose content is not blank, of L lines, a read with
\* 0 <= offset < L and limit >= 1 returns the lines offset ..
\* min(offset + limit, L) - 1, counted from 0, in order, each behind its
\* 1-based number right-aligned in 5 characters and " | ", joined by line
\* ends; a read with offset >= L returns the offset error.
C27_ReadWindow ==
    LET content == ReadFile(fs, DocPath)
        lines == SplitLines(content)
        L == Len(lines)
    IN  ~AllWhitespace(content) =>
            \A offset \in ReadArgs, limit \in ReadArgs :
                (offset >= 0 /\ limit >= 1) =>
                    LET out == ReadOut(offset, limit)
                        stop == Min(offset + limit, L)
                    IN  IF offset >= L THEN out.kind = "offset_error"
                        ELSE /\ out.kind = "text"
                             /\ out.text =
                                   JoinLines([k \in 1..(stop - offset) |->
                                       NumberPrefix(offset + k) \o lines[offset + k]])

\* A read of a file of three lines has returned its second line alone, as
\* offset 1 and limit 1 make it.
C27_Witness ==
    /\ last.op = "read"
    /\ Len(SplitLines(ReadFile(fs, DocPath))) = 3
    /\ last.kind = "text"
    /\ last.text = NumberPrefix(2) \o SplitLines(ReadFile(fs, DocPath))[2]

\* C28: for every offset and limit, negative ones too, every line of the
\* text a read returns carries a number that is at least 1 and is the
\* 1-based position in the file of the line that follows it.
C28_NumbersArePositions ==
    LET lines == SplitLines(ReadFile(fs, DocPath))
    IN  \A offset \in ReadArgs, limit \in ReadArgs :
            LET out == ReadOut(offset, limit)
                shown == SplitLines(out.text)
            IN  out.kind = "text" =>
                    \A k \in 1..Len(shown) :
                        \E n \in 1..Len(lines) :
                            shown[k] = FormatLine(n, lines[n])

----------------------------------------------------------------------------
(* ls_info over directories that hold files and directories *)

\* Entries below the root, among them a directory whose name begins the
\* name of a file beside it.
ListNodes ==
    (<<"a", "a">> :> DirNode) @@ (<<"a", "a.t">> :> FileNode(<<"x">>))
    @@ (<<"a", "b.u">> :> FileNode(<<"x", "y">>)) @@ (<<"a", "d.t">> :> DirNode)
    @@ (<<"a", "a", "a.t">> :> FileNode(<<"y">>))
    @@ (<<"a", "a", "b.u">> :> FileNode(<<"x">>))

ListTrees ==
    {[p \in S |-> ListNodes[p]] :
        S \in {T \in SUBSET DOMAIN ListNodes :
                  \A p \in T : Len(p) > Len(CWD) + 1 => Parent(p) \in T}}

InitLs ==
    /\ variant \in Variants
    /\ \E t \in ListTrees : fs = t @@ InitFs
    /\ last = NoCall
    /\ tx = NoTx
    /\ RateIdle

\* Directories of a tree are listed
SpecLs == InitLs /\ [][Ls]_vars

\* The entry of a listing describes the child called name of the directory
\* d: a file with its size, or a directory with size 0 and a path that ends
\* with the separator.
Describes(entry, f, d, name) ==
    LET child == Append(d, name)
        n == Len(entry.path)
    IN  IF PathIsFile(f, child)
        THEN /\ ~entry.is_dir
             /\ n >= 1 /\ entry.path[n] = name
             /\ entry.size = Len(ReadFile(f, child))
        ELSE /\ entry.is_dir
             /\ n >= 2 /\ entry.path[n] = Sep /\ entry.path[n - 1] = name
             /\ entry.size = 0

\* C30: ls of an existing directory returns one entry for each immediate
\* child and nothing else, a file with its size and a directory with size
\* 0 and a path ending in the separator, and the list is in ascending
\* order of the path strings of its entries.
C30_LsSortedByPath ==
    \A path \in Keys :
        LET r == ls_dir_path(variant, fs, path)
        IN  ~InvalidBase(fs, r) =>
                LET d == The(Lookup(fs, The(r)))
                    files == ls_info(variant, fs, path).out.files
                IN  /\ Len(files) = Cardinality(ChildNames(fs, d))
                    /\ \A name \in ChildNames(fs, d) :
                          \E k \in 1..Len(files) : Describes(files[k], fs, d, name)
                    /\ \A k \in 1..(Len(files) - 1) :
                          LexLess(StrCodes(files[k].path), StrCodes(files[k + 1].path))

====
